---- MODULE Spec2Model ----
(***************************************************************************)
(* Model of the memory service: the ingest worker and its jobs, the        *)
(* structured ingest request (entities, relations, events), and the safe   *)
(* query builders with their high-level executors.                         *)
(***************************************************************************)
EXTENDS Integers, Sequences, FiniteSets, TLC

NULL == "null"

\* ------------------------------------------------------------------ bounds
MaxQueue == 1
MaxSplits == 2
MaxChunks == 3
MaxEvents == 2
MaxEdges == 2

\* ------------------------------------------------------------- identifiers
JobIds == {"j1"}
ArtifactIds == {"a1"}
Workers == {"w1"}

QUEUED == "queued"
PROCESSING == "processing"
COMPLETED == "completed"
FAILED == "failed"
CANCELLED == "cancelled"
IngestStatus == {QUEUED, PROCESSING, COMPLETED, FAILED, CANCELLED}

\* A chunk text the splitter returns: real text, or whitespace only.
ChunkTexts == {"text", "blank"}

RECURSIVE SeqsUpTo(_, _)
SeqsUpTo(S, n) ==
    IF n = 0 THEN {<<>>}
    ELSE LET shorter == SeqsUpTo(S, n - 1)
         IN shorter \cup {Append(s, x) : s \in {t \in shorter : Len(t) = n - 1}, x \in S}

\* What RecursiveCharacterTextSplitter.split_text can return for a text.
SplitResults == SeqsUpTo(ChunkTexts, MaxSplits)

\* Artifact.raw_text (str | None): None, or a text given by the way it splits.
RawTexts ==
    {[is_none |-> TRUE, text_chunks |-> <<>>]}
        \cup {[is_none |-> FALSE, text_chunks |-> s] : s \in SplitResults}

VARIABLES
    \* ---- worker subsystem
    jobs,        \* ingest_job table: id of each stored job -> its record
    artifacts,   \* artifact table: id of each stored artifact -> [raw_text]
    chunks,      \* artifact_chunk table: artifact id -> chunk_index of each saved chunk
    queue,       \* Redis list "ingestion": job ids of the queued payloads (NULL: no id)
    shutdown,    \* shutdown_event.is_set()
    wpc,         \* worker -> position in run_worker / ingest
    wmsg,        \* worker -> id carried by the dequeued payload
    wjob,        \* worker -> the IngestJob object loaded by ingest (a local copy)
    wart,        \* worker -> id of the artifact being chunked
    wpending,    \* worker -> chunk_index of the chunks built and not saved yet
    wlog,        \* worker -> what the current loop iteration logged or raised
    \* ---- structured ingest request
    records,     \* entity and artifact tables: db id -> [tb, tenant_id, is_deleted]
    edges,       \* edge tables: the stored edges, each with its table tb
    events,      \* event table: the saved events
    rpc,         \* position of the ingest request in flight ("idle": none)
    req,         \* tenant_id of the request and what is left of its lists
    artifact_mapping,  \* internal content id -> db artifact id
    saved_entities,    \* (EntityIngestion, id of the saved Entity), as zipped
    all_relations,     \* the resolved RelationIngestion objects
    warnings,          \* the entity id each appended warning names
    rlog,              \* the relation the resolution has just seen, with its outcome
    upserts,           \* upsert_relation task of each resolved relation
    \* ---- query builders
    qb,          \* the builder object in use ("none": no builder constructed)
    gqb,         \* the _graph_query_builder of a CombinedQueryBuilder
    built,       \* the (sql, params) pairs returned by the last build
    executor,    \* the high-level executor that issued built, with its tenant_id
    ncalls,      \* calls made on qb since it was constructed
    raised,      \* the last builder or executor call raised an exception
    \* ---- text normalization
    text,        \* the text at hand, a sequence of characters
    passes,      \* times normalize_text has been applied to it
    \* ---- retrieval
    route,            \* the route that started the retrieval, with its resolution number
    request,          \* the RetrieveRequest as the route handed it to retrieval
    payload,          \* the same object once retrieval has set its resolution
    company,          \* the Company retrieval loaded for the tenant
    retpc,            \* position of the retrieval: idle, execute, sufficiency, returned
    initial_response, \* the level-5 response a level-6 retrieval holds
    response,         \* the RetrieveResponse returned
    rcalls,           \* the handlers and helper calls of the retrieval, in call order
    artifact_chunks,  \* artifact_chunk table: artifact db id -> text of its live chunks
    \* ---- Hybrid
    retrieved,   \* retriever of the hybrid -> the documents its search returns, or a raise
    hybrid_docs, \* the documents the hybrid retriever returned
    hybrid_pc,   \* "idle" before _aget_relevant_documents has run, "returned" after
    \* ---- Chain
    prompt_cache, \* PromptService._prompt_cache: prompt name -> the cached prompt, if any
    llm,          \* what the chat completion of the next extraction does
    chain_call,   \* the extraction called, with its entities argument
    chain_out,     \* what the extraction gave its caller: a list, or a raise
    \* ---- Fulltext
    fulltext_rows, \* what execute_fulltext_query does for the search: rows, or a raise
    like_rows,     \* what execute_query does for the LIKE query: rows, or a raise
    fulltext_out,  \* what the full-text retriever gave its caller: documents, or a raise
    fulltext_pc     \* "idle" before _aget_relevant_documents has run, "returned" after

workerVars == <<jobs, artifacts, chunks, queue, shutdown, wpc, wmsg, wjob, wart,
                wpending, wlog>>

ingestVars == <<records, edges, events, rpc, req, artifact_mapping, saved_entities,
                all_relations, warnings, rlog, upserts>>

builderVars == <<qb, gqb, built, executor, ncalls, raised>>

textVars == <<text, passes>>

retrieveVars == <<route, request, payload, company, retpc, initial_response, response,
                  rcalls, artifact_chunks>>

hybridVars == <<retrieved, hybrid_docs, hybrid_pc>>

chainVars == <<prompt_cache, llm, chain_call, chain_out>>

fulltextVars == <<fulltext_rows, like_rows, fulltext_out, fulltext_pc>>

nonWorkerVars == <<ingestVars, builderVars, textVars, retrieveVars, hybridVars, chainVars, fulltextVars>>

nonIngestVars == <<workerVars, builderVars, textVars, retrieveVars, hybridVars, chainVars, fulltextVars>>

nonBuilderVars == <<workerVars, ingestVars, textVars, retrieveVars, hybridVars, chainVars, fulltextVars>>

nonTextVars == <<workerVars, ingestVars, builderVars, retrieveVars, hybridVars, chainVars, fulltextVars>>

nonRetrieveVars == <<workerVars, ingestVars, builderVars, textVars, hybridVars, chainVars, fulltextVars>>

nonHybridVars == <<workerVars, ingestVars, builderVars, textVars, retrieveVars, chainVars, fulltextVars>>

nonChainVars == <<workerVars, ingestVars, builderVars, textVars, retrieveVars, hybridVars, fulltextVars>>

nonFulltextVars == <<workerVars, ingestVars, builderVars, textVars, retrieveVars, hybridVars, chainVars>>

vars == <<workerVars, ingestVars, builderVars, textVars, retrieveVars, hybridVars, chainVars, fulltextVars>>

\* ------------------------------------------------------------ worker: data
NewJob(a) ==
    [status |-> QUEUED, artifact_id |-> a, error_message |-> NULL, completed_at |-> NULL]

\* No IngestJob object is held / nothing was logged yet.
NoJob == [id |-> NULL, rec |-> NewJob(NULL)]
NoLog == [event |-> "none", job |-> NULL, art |-> NULL]

\* The table t without the record of id k / with record r stored under id k.
Without(t, k) == [x \in DOMAIN t \ {k} |-> t[x]]
With(t, k, r) == [x \in DOMAIN t \cup {k} |-> IF x = k THEN r ELSE t[x]]

\* IngestStatus.is_queued
is_queued(status) == status = QUEUED

\* TextProcessor._create_chunks_from_text_chunks: the chunk_index of every chunk
\* built from text_chunks, in order; whitespace-only texts are skipped and the
\* index is the position in text_chunks (enumerate), counted from 0.
RECURSIVE CreateChunksFrom(_, _)
CreateChunksFrom(text_chunks, idx) ==
    IF idx > Len(text_chunks) THEN <<>>
    ELSE IF text_chunks[idx] = "blank"
         THEN CreateChunksFrom(text_chunks, idx + 1)
         ELSE <<idx - 1>> \o CreateChunksFrom(text_chunks, idx + 1)

_create_chunks_from_text_chunks(text_chunks) == CreateChunksFrom(text_chunks, 1)

\* ---------------------------------------------------------- worker: actions
InitWorker ==
    /\ jobs = <<>>
    /\ artifacts \in [ArtifactIds -> [raw_text : RawTexts]]
    /\ chunks = [a \in ArtifactIds |-> <<>>]
    /\ queue = <<>>
    /\ shutdown = FALSE
    /\ wpc = [w \in Workers |-> "loop"]
    /\ wmsg = [w \in Workers |-> NULL]
    /\ wjob = [w \in Workers |-> NoJob]
    /\ wart = [w \in Workers |-> NULL]
    /\ wpending = [w \in Workers |-> <<>>]
    /\ wlog = [w \in Workers |-> NoLog]

\* job.create_artifact_processing_job: a QUEUED job for the artifact is saved
\* and its dump is pushed on the queue.
create_artifact_processing_job(j, a) ==
    /\ j \notin DOMAIN jobs
    /\ a \in DOMAIN artifacts
    /\ Len(queue) < MaxQueue
    /\ jobs' = With(jobs, j, NewJob(a))
    /\ queue' = Append(queue, j)
    /\ UNCHANGED <<artifacts, chunks, shutdown, wpc, wmsg, wjob, wart, wpending, wlog, nonWorkerVars>>

\* queue_manager.enqueue: any JSON payload can be pushed (a redelivered or
\* foreign message); m is the "id" the payload carries, NULL when it has none.
enqueue(m) ==
    /\ Len(queue) < MaxQueue
    /\ queue' = Append(queue, m)
    /\ UNCHANGED <<jobs, artifacts, chunks, shutdown, wpc, wmsg, wjob, wart, wpending, wlog, nonWorkerVars>>

\* job.update_job_status
update_job_status(j, status, error_message) ==
    /\ j \in DOMAIN jobs
    /\ jobs' = [jobs EXCEPT ![j] =
                 [@ EXCEPT !.status = status,
                           !.error_message =
                               IF error_message # NULL THEN error_message ELSE @,
                           !.completed_at =
                               IF status \in {"completed", "failed"} THEN "now" ELSE @]]
    /\ UNCHANGED <<artifacts, chunks, queue, shutdown, wpc, wmsg, wjob, wart, wpending, wlog, nonWorkerVars>>

\* Record delete of an artifact or of a job (persistence layer).
delete_artifact(a) ==
    /\ a \in DOMAIN artifacts
    /\ artifacts' = Without(artifacts, a)
    /\ UNCHANGED <<jobs, chunks, queue, shutdown, wpc, wmsg, wjob, wart, wpending, wlog, nonWorkerVars>>

delete_job(j) ==
    /\ j \in DOMAIN jobs
    /\ jobs' = Without(jobs, j)
    /\ UNCHANGED <<artifacts, chunks, queue, shutdown, wpc, wmsg, wjob, wart, wpending, wlog, nonWorkerVars>>

\* worker.handle_shutdown_signal
handle_shutdown_signal ==
    /\ ~shutdown
    /\ shutdown' = TRUE
    /\ UNCHANGED <<jobs, artifacts, chunks, queue, wpc, wmsg, wjob, wart, wpending, wlog, nonWorkerVars>>

\* run_worker: the while test; a new iteration starts with nothing logged.
WorkerLoop(w) ==
    /\ wpc[w] = "loop"
    /\ wpc' = [wpc EXCEPT ![w] = IF shutdown THEN "done" ELSE "dequeue"]
    /\ wlog' = [wlog EXCEPT ![w] = NoLog]
    /\ wmsg' = [wmsg EXCEPT ![w] = NULL]
    /\ UNCHANGED <<jobs, artifacts, chunks, queue, shutdown, wjob, wart, wpending, nonWorkerVars>>

\* run_worker: dequeue returns a payload.
WorkerDequeue(w) ==
    /\ wpc[w] = "dequeue"
    /\ queue # <<>>
    /\ queue' = Tail(queue)
    /\ wmsg' = [wmsg EXCEPT ![w] = Head(queue)]
    /\ wpc' = [wpc EXCEPT ![w] = "find_job"]
    /\ UNCHANGED <<jobs, artifacts, chunks, shutdown, wjob, wart, wpending, wlog, nonWorkerVars>>

\* run_worker: BRPOP timed out on an empty list ("No message found").
WorkerDequeueEmpty(w) ==
    /\ wpc[w] = "dequeue"
    /\ queue = <<>>
    /\ wpc' = [wpc EXCEPT ![w] = "loop"]
    /\ UNCHANGED <<jobs, artifacts, chunks, queue, shutdown, wmsg, wjob, wart, wpending, wlog, nonWorkerVars>>

\* run_worker: dequeue raised (Redis error); except Exception -> sleep.
WorkerDequeueRaise(w) ==
    /\ wpc[w] = "dequeue"
    /\ wpc' = [wpc EXCEPT ![w] = "except"]
    /\ wlog' = [wlog EXCEPT ![w] = [event |-> "raised_dequeue", job |-> NULL, art |-> NULL]]
    /\ UNCHANGED <<jobs, artifacts, chunks, queue, shutdown, wmsg, wjob, wart, wpending, nonWorkerVars>>

\* run_worker: asyncio.sleep(0.1) in the except branch, then the loop again.
WorkerExcept(w) ==
    /\ wpc[w] = "except"
    /\ wpc' = [wpc EXCEPT ![w] = "loop"]
    /\ wjob' = [wjob EXCEPT ![w] = NoJob]
    /\ wart' = [wart EXCEPT ![w] = NULL]
    /\ wpending' = [wpending EXCEPT ![w] = <<>>]
    /\ UNCHANGED <<jobs, artifacts, chunks, queue, shutdown, wmsg, wlog, nonWorkerVars>>

\* IngestFindJob without the is_queued test.
IngestFindJob_NoQueuedTest(w) ==
    /\ wpc[w] = "find_job"
    /\ LET m == wmsg[w] IN
       IF m = NULL \/ m \notin DOMAIN jobs
       THEN /\ wlog' = [wlog EXCEPT ![w] = [event |-> "job_not_found", job |-> m, art |-> NULL]]
            /\ wpc' = [wpc EXCEPT ![w] = "loop"]
            /\ UNCHANGED wjob
       ELSE /\ wjob' = [wjob EXCEPT ![w] = [id |-> m, rec |-> [jobs[m] EXCEPT !.status = PROCESSING]]]
            /\ wpc' = [wpc EXCEPT ![w] = "save_processing"]
            /\ UNCHANGED wlog
    /\ UNCHANGED <<jobs, artifacts, chunks, queue, shutdown, wmsg, wart, wpending, nonWorkerVars>>

\* ingest: job id of the payload, IngestJob.find_one, the is_queued test, and
\* job.status = PROCESSING on the loaded object.
IngestFindJob(w) ==
    /\ wpc[w] = "find_job"
    /\ LET m == wmsg[w] IN
       IF m = NULL
       THEN /\ wlog' = [wlog EXCEPT ![w] = [event |-> "no_job_id", job |-> NULL, art |-> NULL]]
            /\ wpc' = [wpc EXCEPT ![w] = "loop"]
            /\ UNCHANGED wjob
       ELSE IF m \notin DOMAIN jobs
       THEN /\ wlog' = [wlog EXCEPT ![w] = [event |-> "job_not_found", job |-> m, art |-> NULL]]
            /\ wpc' = [wpc EXCEPT ![w] = "loop"]
            /\ UNCHANGED wjob
       ELSE IF ~is_queued(jobs[m].status)
       THEN /\ wlog' = [wlog EXCEPT ![w] = [event |-> "job_not_queued", job |-> m, art |-> NULL]]
            /\ wpc' = [wpc EXCEPT ![w] = "loop"]
            /\ UNCHANGED wjob
       ELSE /\ wjob' = [wjob EXCEPT ![w] = [id |-> m, rec |-> [jobs[m] EXCEPT !.status = PROCESSING]]]
            /\ wpc' = [wpc EXCEPT ![w] = "save_processing"]
            /\ UNCHANGED wlog
    /\ UNCHANGED <<jobs, artifacts, chunks, queue, shutdown, wmsg, wart, wpending, nonWorkerVars>>

\* ingest: await job.save() after the PROCESSING assignment.
IngestSaveProcessing(w) ==
    /\ wpc[w] = "save_processing"
    /\ jobs' = With(jobs, wjob[w].id, wjob[w].rec)
    /\ wpc' = [wpc EXCEPT ![w] = "find_artifact"]
    /\ UNCHANGED <<artifacts, chunks, queue, shutdown, wmsg, wjob, wart, wpending, wlog, nonWorkerVars>>

\* ingest: Artifact.find_one, then TextProcessor.create_chunks up to the await
\* of embed_chunks: split_text (normalize_text raises on a None text) and
\* _create_chunks_from_text_chunks.
IngestFindArtifact(w) ==
    /\ wpc[w] = "find_artifact"
    /\ LET a == wjob[w].rec.artifact_id IN
       IF a \notin DOMAIN artifacts
       THEN /\ wlog' = [wlog EXCEPT ![w] = [event |-> "artifact_not_found", job |-> wjob[w].id, art |-> a]]
            /\ wpc' = [wpc EXCEPT ![w] = "loop"]
            /\ wjob' = [wjob EXCEPT ![w] = NoJob]
            /\ UNCHANGED <<wart, wpending>>
       ELSE IF artifacts[a].raw_text.is_none
       THEN /\ wlog' = [wlog EXCEPT ![w] = [event |-> "raised_chunking", job |-> wjob[w].id, art |-> a]]
            /\ wpc' = [wpc EXCEPT ![w] = "except"]
            /\ UNCHANGED <<wjob, wart, wpending>>
       ELSE /\ Len(chunks[a]) + Len(artifacts[a].raw_text.text_chunks) <= MaxChunks
            /\ wart' = [wart EXCEPT ![w] = a]
            /\ wpending' = [wpending EXCEPT ![w] =
                               _create_chunks_from_text_chunks(
                                   artifacts[a].raw_text.text_chunks)]
            /\ wpc' = [wpc EXCEPT ![w] = "embed"]
            /\ UNCHANGED <<wjob, wlog>>
    /\ UNCHANGED <<jobs, artifacts, chunks, queue, shutdown, wmsg, nonWorkerVars>>

\* TextProcessor.embed_chunks: generate_embeddings_batch returned no errors.
IngestEmbed(w) ==
    /\ wpc[w] = "embed"
    /\ wpc' = [wpc EXCEPT ![w] = "save_chunks"]
    /\ UNCHANGED <<jobs, artifacts, chunks, queue, shutdown, wmsg, wjob, wart, wpending, wlog, nonWorkerVars>>

\* TextProcessor.embed_chunks: errors returned, ValueError raised; it leaves
\* ingest and is caught by run_worker.
IngestEmbedRaise(w) ==
    /\ wpc[w] = "embed"
    /\ wpc' = [wpc EXCEPT ![w] = "except"]
    /\ wlog' = [wlog EXCEPT ![w] = [event |-> "raised_embedding", job |-> wjob[w].id, art |-> wart[w]]]
    /\ UNCHANGED <<jobs, artifacts, chunks, queue, shutdown, wmsg, wjob, wart, wpending, nonWorkerVars>>

\* TextProcessor.create_chunks: await chunk.save() for the next chunk.
IngestSaveChunk(w) ==
    /\ wpc[w] = "save_chunks"
    /\ wpending[w] # <<>>
    /\ chunks' = [chunks EXCEPT ![wart[w]] = Append(@, Head(wpending[w]))]
    /\ wpending' = [wpending EXCEPT ![w] = Tail(@)]
    /\ UNCHANGED <<jobs, artifacts, queue, shutdown, wpc, wmsg, wjob, wart, wlog, nonWorkerVars>>

\* TextProcessor.create_chunks: chunk.save() raised (driver error).
IngestSaveChunkRaise(w) ==
    /\ wpc[w] = "save_chunks"
    /\ wpending[w] # <<>>
    /\ wpc' = [wpc EXCEPT ![w] = "except"]
    /\ wlog' = [wlog EXCEPT ![w] = [event |-> "raised_persisting", job |-> wjob[w].id, art |-> wart[w]]]
    /\ UNCHANGED <<jobs, artifacts, chunks, queue, shutdown, wmsg, wjob, wart, wpending, nonWorkerVars>>

\* ingest: job.status = COMPLETED; await job.save(); return.
IngestSaveCompleted(w) ==
    /\ wpc[w] = "save_chunks"
    /\ wpending[w] = <<>>
    /\ jobs' = With(jobs, wjob[w].id, [wjob[w].rec EXCEPT !.status = COMPLETED])
    /\ wlog' = [wlog EXCEPT ![w] = [event |-> "completed", job |-> wjob[w].id, art |-> wart[w]]]
    /\ wpc' = [wpc EXCEPT ![w] = "loop"]
    /\ wjob' = [wjob EXCEPT ![w] = NoJob]
    /\ wart' = [wart EXCEPT ![w] = NULL]
    /\ UNCHANGED <<artifacts, chunks, queue, shutdown, wmsg, wpending, nonWorkerVars>>

WorkerStep(w) ==
    \/ WorkerLoop(w)
    \/ WorkerDequeue(w)
    \/ WorkerDequeueEmpty(w)
    \/ WorkerDequeueRaise(w)
    \/ WorkerExcept(w)
    \/ IngestFindJob(w)
    \/ IngestSaveProcessing(w)
    \/ IngestFindArtifact(w)
    \/ IngestEmbed(w)
    \/ IngestEmbedRaise(w)
    \/ IngestSaveChunk(w)
    \/ IngestSaveChunkRaise(w)
    \/ IngestSaveCompleted(w)

NextWorker ==
    \/ \E j \in JobIds, a \in ArtifactIds : create_artifact_processing_job(j, a)
    \/ \E m \in JobIds \cup {NULL} : enqueue(m)
    \/ \E j \in JobIds, s \in IngestStatus, e \in {NULL, "error"} : update_job_status(j, s, e)
    \/ \E a \in ArtifactIds : delete_artifact(a)
    \/ \E j \in JobIds : delete_job(j)
    \/ handle_shutdown_signal
    \/ \E w \in Workers : WorkerStep(w)

\* ------------------------------------------------ structured ingest: data
Tenants == {"t1", "t2"}

\* Entities stored before the first request, and the ids the store hands out
\* to the entities and artifacts created later.
StoredEntityIds == {"entity:1", "entity:2"}
FreeEntityIds == {"entity:3"}
FreeArtifactIds == {"artifact:1"}

\* Internal ids a payload uses for its entities and contents.
InternalEntityIds == {"a"}
InternalContentIds == {"c"}

RelationTypes == {"knows"}
EntityTypes == {"person"}

\* The companies of the store: t1 allows the entity type organization and the
\* relation type works_at, t2 has no lists (None: all types allowed).
Company_find_one(tenant_id) ==
    IF tenant_id = "t1"
    THEN [id |-> tenant_id,
          entity_types |-> [is_none |-> FALSE, items |-> <<"organization">>],
          relation_types |-> [is_none |-> FALSE, items |-> <<"works_at">>]]
    ELSE [id |-> tenant_id,
          entity_types |-> [is_none |-> TRUE, items |-> <<>>],
          relation_types |-> [is_none |-> TRUE, items |-> <<>>]]

\* What the endpoints of a payload relation can name: an internal id, the db
\* id of a stored entity, or an id that exists nowhere.
FromIds == InternalEntityIds \cup {"ghost"}
ToIds == InternalEntityIds \cup InternalContentIds \cup {"entity:1"}

EntityIngestions ==
    [id : InternalEntityIds, entity_id : {NULL} \cup StoredEntityIds,
     entity_type : EntityTypes]

\* The relations a content of a payload can carry (ContentRelation: no
\* from_entity_id, the content itself is the source), none or one per content.
ContentRelations == [to_entity_id : InternalEntityIds \cup {"ghost"},
                     relation_type : RelationTypes]
ContentRelationLists == {<<>>} \cup {<<relation>> : relation \in ContentRelations}

ContentIngestions == [id : {NULL} \cup InternalContentIds, relations : ContentRelationLists]

RelationIngestions ==
    [from_entity_id : FromIds, to_entity_id : ToIds, relation_type : RelationTypes]

\* How many contents / entities / relations one payload holds.
ContentCounts == 0..1
EntityCounts == 0..1
RelationCounts == 0..2

NoRequest == [tenant_id |-> NULL, contents |-> 0, entities |-> 0, relations |-> 0,
              content_relations |-> <<>>]

\* Result of an upsert_relation task that has not returned yet.
NoRelation == [id |-> 0, source_id |-> NULL, target_id |-> NULL,
               relation_type |-> NULL, tenant_id |-> NULL]

\* Nothing resolved yet in the request.
NoResolution ==
    [relation |-> [from_entity_id |-> NULL, to_entity_id |-> NULL, relation_type |-> NULL],
     collected |-> FALSE]

\* The step of the request that comes next, from what is left of its lists:
\* artifacts, then entities, then relations, then the relation upserts.
PhaseOf(r) ==
    IF r.contents > 0 THEN "contents"
    ELSE IF r.entities > 0 THEN "entities"
    ELSE IF r.relations > 0 THEN "relations"
    ELSE IF r.content_relations # <<>> THEN "content_relations"
    ELSE "upsert_relations"

\* Entity.find_one(id=..., [tenant_id=...]): the id of the stored entity, or
\* NULL; tenant_id = NULL stands for a call without the tenant filter.
Entity_find_one(id, tenant_id) ==
    IF /\ id \in DOMAIN records
       /\ records[id].tb = "entity"
       /\ (tenant_id = NULL \/ records[id].tenant_id = tenant_id)
    THEN id
    ELSE NULL

\* upsert_entities_with_mapping: entity_mapping[entity_ingestion.id] = saved id,
\* a later entry for the same internal id replacing an earlier one.
entity_mapping ==
    LET n == Len(saved_entities)
        ids == {saved_entities[k].entity.id : k \in 1..n}
        last(i) == CHOOSE k \in 1..n :
                       /\ saved_entities[k].entity.id = i
                       /\ \A m \in 1..n : saved_entities[m].entity.id = i => m <= k
    IN [i \in ids |-> saved_entities[last(i)].saved_id]

\* resolve_entity_id: the db id the id resolves to (NULL: None) and the
\* warnings it appends, each given by the id its text names.
resolve_entity_id_AsItself(entity_id, emap, amap, tenant_id) ==
    [id |-> entity_id, warnings |-> <<>>]

resolve_entity_id(entity_id, emap, amap, tenant_id) ==
    IF entity_id \in DOMAIN emap
    THEN [id |-> emap[entity_id], warnings |-> <<>>]
    ELSE IF entity_id \in DOMAIN amap
    THEN [id |-> amap[entity_id], warnings |-> <<>>]
    ELSE IF Entity_find_one(entity_id, tenant_id) # NULL
    THEN [id |-> Entity_find_one(entity_id, tenant_id), warnings |-> <<>>]
    ELSE [id |-> NULL, warnings |-> <<entity_id>>]

\* The edges the query of upsert_relation selects:
\* SELECT * FROM relation WHERE out = $target_id AND in = $source_id AND
\* relation_type = $relation_type AND tenant_id = $tenant_id.
find_existing_query(source_id, target_id, relation_type, tenant_id) ==
    {e \in edges :
        /\ e.tb = "relation"
        /\ e.out = target_id
        /\ e.in = source_id
        /\ e.relation_type = relation_type
        /\ e.tenant_id = tenant_id}

\* RELATE $source_id -> relation -> $target_id SET tenant_id, relation_type:
\* a new edge of table relation; the store keeps the source in "in" and the
\* target in "out" and generates the id (here: the count of such edges).
RELATE(source_id, target_id, relation_type, tenant_id) ==
    LET same == find_existing_query(source_id, target_id, relation_type, tenant_id)
    IN [id |-> Cardinality(same) + 1, tb |-> "relation", in |-> source_id,
        out |-> target_id, relation_type |-> relation_type, tenant_id |-> tenant_id,
        is_deleted |-> FALSE]

\* Relation._get_table_name(relation_type)
_get_table_name(relation_type) == relation_type

\* Relation.find_one(relation_type, source_id=..., target_id=...): the rows
\* SELECT * FROM <table> WHERE out = $source_id AND `in` = $target_id LIMIT 1
\* can return, each mapped out -> source_id, in -> target_id; NoRelation: None.
Relation_find_one(relation_type, source_id, target_id) ==
    LET table == _get_table_name(relation_type)
        rows == {e \in edges : e.tb = table /\ e.out = source_id /\ e.in = target_id}
    IN IF rows = {} THEN {NoRelation}
       ELSE {[id |-> e.id, source_id |-> e.out, target_id |-> e.in,
              relation_type |-> e.relation_type, tenant_id |-> e.tenant_id] : e \in rows}

\* --------------------------------------------- structured ingest: actions
\* No request in flight, the store holding the entities saved earlier:
\* entity:1 of tenant t1 and entity:2 of tenant t2.
IdleIngest ==
    /\ rpc = "idle"
    /\ req = NoRequest
    /\ artifact_mapping = <<>>
    /\ saved_entities = <<>>
    /\ all_relations = <<>>
    /\ warnings = <<>>
    /\ rlog = NoResolution
    /\ upserts = <<>>

InitIngest ==
    /\ records = [id \in StoredEntityIds |->
                     [tb |-> "entity",
                      tenant_id |-> IF id = "entity:1" THEN "t1" ELSE "t2",
                      entity_type |-> IF id = "entity:1" THEN "organization" ELSE "person",
                      is_deleted |-> FALSE]]
    /\ edges = {}
    /\ events = {}
    /\ IdleIngest

\* POST /ingest: a request of tenant_id with nc contents, ne entities and nr
\* relations starts; its lists are read element by element by the steps below.
StartIngest(tenant_id, nc, ne, nr) ==
    /\ rpc = "idle"
    /\ nc <= Cardinality(FreeArtifactIds \ DOMAIN records)
    /\ Cardinality(events) + ne <= MaxEvents
    /\ req' = [tenant_id |-> tenant_id, contents |-> nc, entities |-> ne, relations |-> nr,
               content_relations |-> <<>>]
    /\ rpc' = PhaseOf(req')
    /\ UNCHANGED <<records, edges, events, artifact_mapping, saved_entities,
                   all_relations, warnings, rlog, upserts, nonIngestVars>>

\* create_artifacts_with_mapping, one content: the artifact is saved and, when
\* the content has an internal id, the id is mapped to the artifact.
create_artifacts_with_mapping(content) ==
    /\ rpc = "contents"
    /\ LET artifact == CHOOSE a \in FreeArtifactIds : a \notin DOMAIN records IN
       /\ records' = With(records, artifact, [tb |-> "artifact", tenant_id |-> req.tenant_id,
                                                is_deleted |-> FALSE])
       /\ artifact_mapping' =
              IF content.id # NULL THEN With(artifact_mapping, content.id, artifact)
              ELSE artifact_mapping
    /\ req' = [req EXCEPT !.contents = @ - 1,
                          !.content_relations = @ \o
                              [i \in 1..Len(content.relations) |->
                                  [content_id |-> content.id,
                                   relation |-> content.relations[i]]]]
    /\ rpc' = PhaseOf(req')
    /\ UNCHANGED <<edges, events, saved_entities, all_relations, warnings, rlog,
                   upserts, nonIngestVars>>

\* create_entity_event: an Event of the entity's tenant for the entity is
\* saved (id: the count of such events of the entity).
create_entity_event(entity_id, event_type) ==
    LET same == {ev \in events : ev.entity_id = entity_id /\ ev.event_type = event_type}
    IN events \cup {[id |-> Cardinality(same) + 1,
                     tenant_id |-> records'[entity_id].tenant_id,
                     entity_id |-> entity_id, event_type |-> event_type]}

\* update_entity: entity.update with the fields of the payload entity,
\* entity.save, then the entity_updated event.
update_entity(existing_entity, data) ==
    /\ records' = [records EXCEPT ![existing_entity].entity_type = data.entity_type]
    /\ events' = create_entity_event(existing_entity, "entity_updated")
    /\ saved_entities' = Append(saved_entities, [entity |-> data, saved_id |-> existing_entity])

\* create_entity: a new Entity of the tenant is saved, then the entity_created
\* event.
create_entity(tenant_id, entity) ==
    /\ FreeEntityIds \ DOMAIN records # {}
    /\ LET new_entity == CHOOSE e \in FreeEntityIds : e \notin DOMAIN records IN
       /\ records' = With(records, new_entity, [tb |-> "entity", tenant_id |-> tenant_id,
                                                  entity_type |-> entity.entity_type,
                                                  is_deleted |-> FALSE])
       /\ events' = create_entity_event(new_entity, "entity_created")
       /\ saved_entities' = Append(saved_entities, [entity |-> entity, saved_id |-> new_entity])

\* upsert_entity that never looks the entity_id up.
upsert_entity_AlwaysCreate(tenant_id, entity) ==
    /\ rpc = "entities"
    /\ create_entity(tenant_id, entity)
    /\ req' = [req EXCEPT !.entities = @ - 1]
    /\ rpc' = PhaseOf(req')
    /\ UNCHANGED <<edges, artifact_mapping, all_relations, warnings, rlog, upserts,
                   nonIngestVars>>

\* upsert_entity, for one entity of the payload.
upsert_entity(tenant_id, entity) ==
    /\ rpc = "entities"
    /\ LET existing_entity ==
               IF entity.entity_id # NULL
               THEN Entity_find_one(entity.entity_id, NULL)
               ELSE NULL
       IN IF existing_entity # NULL
          THEN update_entity(existing_entity, entity)
          ELSE create_entity(tenant_id, entity)
    /\ req' = [req EXCEPT !.entities = @ - 1]
    /\ rpc' = PhaseOf(req')
    /\ UNCHANGED <<edges, artifact_mapping, all_relations, warnings, rlog, upserts,
                   nonIngestVars>>

\* resolve_and_collect_relations, one relation of payload.relations: both
\* endpoints are resolved; the relation is collected when both resolved.
resolve_and_collect_relations(relation) ==
    /\ rpc = "relations"
    /\ LET from_id == resolve_entity_id(relation.from_entity_id, entity_mapping,
                                        artifact_mapping, req.tenant_id)
           to_id == resolve_entity_id(relation.to_entity_id, entity_mapping,
                                      artifact_mapping, req.tenant_id)
           collected == from_id.id # NULL /\ to_id.id # NULL
       IN /\ warnings' = warnings \o from_id.warnings \o to_id.warnings
          /\ all_relations' =
                 IF collected
                 THEN Append(all_relations,
                             [relation EXCEPT !.from_entity_id = from_id.id,
                                              !.to_entity_id = to_id.id])
                 ELSE all_relations
          /\ upserts' =
                 IF collected
                 THEN Append(upserts, [phase |-> "find", result |-> NoRelation])
                 ELSE upserts
          /\ rlog' = [relation |-> relation, collected |-> collected]
    /\ req' = [req EXCEPT !.relations = @ - 1]
    /\ rpc' = PhaseOf(req')
    /\ UNCHANGED <<records, edges, events, artifact_mapping, saved_entities,
                   nonIngestVars>>

\* resolve_and_collect_relations, one relation of a content of
\* payload.contents: a content with no internal id is passed over with all
\* its relations; otherwise the content's id and the relation's target are
\* resolved and a RelationIngestion from the one to the other is collected
\* when both resolved.
resolve_and_collect_content_relations ==
    /\ rpc = "content_relations"
    /\ LET content_id == Head(req.content_relations).content_id
           relation == Head(req.content_relations).relation
           from_id == resolve_entity_id(content_id, entity_mapping,
                                        artifact_mapping, req.tenant_id)
           to_id == resolve_entity_id(relation.to_entity_id, entity_mapping,
                                      artifact_mapping, req.tenant_id)
           collected == content_id # NULL /\ from_id.id # NULL /\ to_id.id # NULL
       IN /\ warnings' = IF content_id = NULL THEN warnings
                         ELSE warnings \o from_id.warnings \o to_id.warnings
          /\ all_relations' =
                 IF collected
                 THEN Append(all_relations,
                             [from_entity_id |-> from_id.id, to_entity_id |-> to_id.id,
                              relation_type |-> relation.relation_type])
                 ELSE all_relations
          /\ upserts' =
                 IF collected
                 THEN Append(upserts, [phase |-> "find", result |-> NoRelation])
                 ELSE upserts
          /\ rlog' = [relation |-> [from_entity_id |-> content_id,
                                    to_entity_id |-> relation.to_entity_id,
                                    relation_type |-> relation.relation_type],
                      collected |-> collected]
    /\ req' = [req EXCEPT !.content_relations = Tail(@)]
    /\ rpc' = PhaseOf(req')
    /\ UNCHANGED <<records, edges, events, artifact_mapping, saved_entities,
                   nonIngestVars>>

\* upsert_relation up to its first query: an existing edge is updated through
\* update_relation (source_id / target_id set from the payload) and returned.
UpsertRelationFind(k) ==
    /\ rpc = "upsert_relations"
    /\ k \in 1..Len(upserts)
    /\ upserts[k].phase = "find"
    /\ LET relation == all_relations[k]
           existing_results ==
               find_existing_query(relation.from_entity_id, relation.to_entity_id,
                                   relation.relation_type, req.tenant_id)
       IN IF existing_results # {}
          THEN \E e \in existing_results :
                  upserts' = [upserts EXCEPT ![k] =
                     [phase |-> "done",
                      result |-> [id |-> e.id,
                                  source_id |-> relation.from_entity_id,
                                  target_id |-> relation.to_entity_id,
                                  relation_type |-> e.relation_type,
                                  tenant_id |-> e.tenant_id]]]
          ELSE upserts' = [upserts EXCEPT ![k].phase = "relate"]
    /\ rlog' = NoResolution
    /\ UNCHANGED <<records, edges, events, rpc, req, artifact_mapping, saved_entities,
                   all_relations, warnings, nonIngestVars>>

\* upsert_relation from RELATE on: the edge is created, read back with the
\* same query and returned with out mapped to source_id and in to target_id.
UpsertRelationRelate(k) ==
    /\ rpc = "upsert_relations"
    /\ k \in 1..Len(upserts)
    /\ upserts[k].phase = "relate"
    /\ Cardinality(edges) < MaxEdges
    /\ LET relation == all_relations[k] IN
       /\ edges' = edges \cup {RELATE(relation.from_entity_id, relation.to_entity_id,
                                      relation.relation_type, req.tenant_id)}
       /\ \E e \in find_existing_query(relation.from_entity_id, relation.to_entity_id,
                                       relation.relation_type, req.tenant_id)
                     \cup {RELATE(relation.from_entity_id, relation.to_entity_id,
                                  relation.relation_type, req.tenant_id)} :
             upserts' = [upserts EXCEPT ![k] =
                [phase |-> "done",
                 result |-> [id |-> e.id,
                             source_id |-> e.out,
                             target_id |-> e.in,
                             relation_type |-> e.relation_type,
                             tenant_id |-> e.tenant_id]]]
    /\ rlog' = NoResolution
    /\ UNCHANGED <<records, events, rpc, req, artifact_mapping, saved_entities,
                   all_relations, warnings, nonIngestVars>>

\* The endpoint returns {entities, relations, warnings}; the request is over.
FinishIngest ==
    /\ rpc = "upsert_relations"
    /\ \A k \in 1..Len(upserts) : upserts[k].phase = "done"
    /\ rpc' = "idle"
    /\ req' = NoRequest
    /\ artifact_mapping' = <<>>
    /\ saved_entities' = <<>>
    /\ all_relations' = <<>>
    /\ warnings' = <<>>
    /\ rlog' = NoResolution
    /\ upserts' = <<>>
    /\ UNCHANGED <<records, edges, events, nonIngestVars>>

NextIngest ==
    \/ \E t \in Tenants, nc \in ContentCounts, ne \in EntityCounts, nr \in RelationCounts :
           StartIngest(t, nc, ne, nr)
    \/ \E content \in ContentIngestions : create_artifacts_with_mapping(content)
    \/ \E entity \in EntityIngestions : upsert_entity(req.tenant_id, entity)
    \/ \E relation \in RelationIngestions : resolve_and_collect_relations(relation)
    \/ resolve_and_collect_content_relations
    \/ \E k \in 1..Len(upserts) : UpsertRelationFind(k)
    \/ \E k \in 1..Len(upserts) : UpsertRelationRelate(k)
    \/ FinishIngest

\* =========================================================== query builders
\* A query string is a sequence of tokens and a params dict is a function from
\* the number N of each key "<prefix>N" to the value bound to it.

\* ------------------------------------------------------ query builders: data
\* Calls a client makes on one builder object.
MaxCalls == 3

\* entity_ids[:20] of execute_graph_query; the largest depth of depth_range.
MaxEntityIds == 20
MaxDepth == 10

\* A Python value: t its type, s its text, n its integer value, items the
\* elements of a list; arg names the argument of the builder call it was
\* passed as ("": a value no call passed).
None == [arg |-> "", t |-> "none", s |-> "None", n |-> 0, items |-> <<>>]
Str(s) == [arg |-> "", t |-> "str", s |-> s, n |-> 0, items |-> <<>>]
Num(n) == [arg |-> "", t |-> "int", s |-> "", n |-> n, items |-> <<>>]
Bool(s) == [arg |-> "", t |-> "bool", s |-> s, n |-> 0, items |-> <<>>]
List(xs) == [arg |-> "", t |-> "list", s |-> "", n |-> 0, items |-> xs]
False == Bool("False")

\* The value v received as the argument a of a call (its elements with it).
Arg(a, v) ==
    [arg |-> a, t |-> v.t, s |-> v.s, n |-> v.n,
     items |-> [i \in DOMAIN v.items |-> [v.items[i] EXCEPT !.arg = a]]]

\* Tokens of a query string: fixed text of the query language (kw), a validated
\* table or field name (name), a placeholder "$<x><n>" (ph), and a value v
\* written into the text with str() or an f-string (lit).
Kw(x) == [n |-> 0, x |-> x, k |-> "kw", arg |-> ""]
Name(x) == [n |-> 0, x |-> x, k |-> "name", arg |-> ""]
Ph(prefix, n) == [n |-> n, x |-> prefix, k |-> "ph", arg |-> ""]
Lit(v) == [n |-> v.n, x |-> v.s, k |-> "lit", arg |-> v.arg]

\* Inputs of the calls.
Tables == {"entity"}
Fields == {"name", "name; DROP"}
Operators == {"=", "IN", "LIKE"}
WhereValues == {Num(2), List(<<>>), List(<<Str("x"), Str("y")>>)}
Counts == {-1, 2}
QueryTexts == {"hello"}
Embeddings == {List(<<Num(1)>>)}
EntityIdListLengths == {0, 1, 9}
EntityIdLists == {[i \in 1..n |-> "entity:1"] : n \in EntityIdListLengths}
DepthRanges == {<<1, 1>>, <<1, 2>>, <<2, 4>>, <<2, 1>>, <<0, 1>>}
OptionalTenants == {"", "t1"}
OptionalRelationTypes == {"", "knows"}

\* __init__ of the five builder classes: one record shape for all of them,
\* the fields a class does not have keeping these values.
QueryBuilder(cls, table) ==
    [cls |-> cls, table |-> table, edge_table |-> "relation",
     _where_parts |-> <<>>, _params |-> <<>>, _param_counter |-> 0,
     _order_by |-> <<>>, _limit_value |-> None, _skip_value |-> None,
     _embedding_param |-> -1, _query_text_param |-> -1,
     _use_vector |-> FALSE, _use_fulltext |-> FALSE,
     _from_entity_ids |-> <<>>, _to_entity_ids |-> <<>>,
     _min_depth |-> 1, _max_depth |-> 1, _order_by_distance |-> FALSE]

NoBuilder == QueryBuilder("none", "none")

\* The table a specialized builder detects from the model metadata.
VectorQueryBuilder == QueryBuilder("VectorQueryBuilder", "artifact-chunk")
FullTextQueryBuilder == QueryBuilder("FullTextQueryBuilder", "artifact-chunk")
GraphQueryBuilder == QueryBuilder("GraphQueryBuilder", "entity")
CombinedQueryBuilder(table) == QueryBuilder("CombinedQueryBuilder", table)

\* The builders a client constructs.
Builders == {QueryBuilder("QueryBuilder", t) : t \in Tables}
            \cup {VectorQueryBuilder, FullTextQueryBuilder, GraphQueryBuilder,
                  CombinedQueryBuilder("artifact-chunk")}

\* What a call returns: the builder after it and whether it raised.
Returned(b) == [b |-> b, raised |-> FALSE]
Raised(b) == [b |-> b, raised |-> TRUE]

\* --------------------------------------------- query builders: QueryBuilder
\* validate_field_name: the whitelist or the identifier pattern.
validate_field_name(field) == field \in {"tenant_id", "is_deleted", "name",
                                         "relation_type", "embedding", "text", "id"}

\* _add_param with the value not stored under the new name.
_add_param_Dropped(b, value) ==
    [b EXCEPT !._param_counter = @ + 1]

\* _add_param: value is stored under "param_<counter>"; the placeholder it
\* returns is Ph("param_", counter before the call).
_add_param(b, value) ==
    [b EXCEPT !._params = With(@, b._param_counter, value),
              !._param_counter = @ + 1]

\* [self._add_param(v) for v in values], and the placeholders it returns.
RECURSIVE _add_params(_, _)
_add_params(b, values) ==
    IF values = <<>> THEN b
    ELSE _add_params(_add_param(b, Head(values)), Tail(values))

Placeholders(first, count) == [i \in 1..count |-> Ph("param_", first + i - 1)]

\* "[" + ", ".join(placeholders) + "]"
InList(placeholders) == <<Kw("[")>> \o placeholders \o <<Kw("]")>>

allowed_operators == {"=", "!=", ">", "<", ">=", "<=", "IN", "NOT IN"}

where(b, field, value, operator) ==
    IF ~validate_field_name(field) THEN Raised(b)
    ELSE LET b1 == _add_param(b, Arg("value", value))
             param_placeholder == Ph("param_", b._param_counter)
             b2 == _add_params(b1, Arg("value", value).items)
             param_placeholders == Placeholders(b1._param_counter, Len(value.items))
         IN  IF operator \notin allowed_operators THEN Raised(b1)
             ELSE IF operator \in {"IN", "NOT IN"}
             THEN IF value.t # "list" THEN Raised(b1)
                  ELSE Returned([b2 EXCEPT !._where_parts = Append(@,
                           <<Name(field)>>
                           \o (IF operator = "IN" THEN <<Kw("IN")>>
                                                  ELSE <<Kw("NOT"), Kw("IN")>>)
                           \o InList(param_placeholders))])
             ELSE Returned([b1 EXCEPT !._where_parts = Append(@,
                      <<Name(field), Kw(operator), param_placeholder>>)])

where_eq(b, field, value) == where(b, field, value, "=")

where_in(b, field, values) == where(b, field, values, "IN")

where_is_not_none(b, field) ==
    IF ~validate_field_name(field) THEN Raised(b)
    ELSE Returned([b EXCEPT !._where_parts = Append(@, <<Name(field), Kw("IS NOT NONE")>>)])

order_by(b, field, direction) ==
    IF ~validate_field_name(field) \/ direction \notin {"ASC", "DESC"} THEN Raised(b)
    ELSE Returned([b EXCEPT !._order_by = Append(@, <<Name(field), Kw(direction)>>)])

limit(b, count) ==
    IF count < 0 THEN Raised(b)
    ELSE Returned([b EXCEPT !._limit_value = Arg("count", Num(count))])

skip(b, count) ==
    IF count < 0 THEN Raised(b)
    ELSE Returned([b EXCEPT !._skip_value = Arg("count", Num(count))])

\* sep.join(parts), parts being token sequences.
RECURSIVE Join(_, _)
Join(parts, sep) ==
    IF parts = <<>> THEN <<>>
    ELSE IF Len(parts) = 1 THEN parts[1]
    ELSE parts[1] \o <<Kw(sep)>> \o Join(Tail(parts), sep)

\* " WHERE " + " AND ".join(self._where_parts), "" without parts.
where_clause(b) ==
    IF b._where_parts = <<>> THEN <<>>
    ELSE <<Kw("WHERE")>> \o Join(b._where_parts, "AND")

order_by_clause(b) ==
    IF b._order_by = <<>> THEN <<>>
    ELSE <<Kw("ORDER BY")>> \o Join(b._order_by, ",")

\* What build returns: the builder after it, the query string and the params
\* dict with the prefix of its keys.
Query(b, sql) == [b |-> b, raised |-> FALSE, sql |-> sql,
                  prefix |-> "param_", params |-> b._params]
NoQuery(b) == [b |-> b, raised |-> TRUE, sql |-> <<>>,
               prefix |-> "param_", params |-> <<>>]

\* QueryBuilder.build: START and LIMIT are written into the text.
QueryBuilder_build(b) ==
    Query(b, <<Kw("SELECT"), Kw("*"), Kw("FROM"), Name(b.table)>>
             \o where_clause(b)
             \o order_by_clause(b)
             \o (IF b._skip_value # None THEN <<Kw("START"), Lit(b._skip_value)>> ELSE <<>>)
             \o (IF b._limit_value # None THEN <<Kw("LIMIT"), Lit(b._limit_value)>> ELSE <<>>))

\* --------------------------------------- query builders: specialized builders
\* " LIMIT " + self._add_param(self._limit_value) of the vector, full-text and
\* combined builders: the builder after it and the clause.
limit_clause(b) ==
    IF b._limit_value = None THEN [b |-> b, clause |-> <<>>]
    ELSE [b |-> _add_param(b, b._limit_value),
          clause |-> <<Kw("LIMIT"), Ph("param_", b._param_counter)>>]

with_embedding_similarity(b, query_embedding) ==
    Returned([_add_param(b, Arg("query_embedding", query_embedding))
                 EXCEPT !._embedding_param = b._param_counter])

VectorQueryBuilder_build(b) ==
    LET order == IF b._order_by # <<>> THEN order_by_clause(b)
                 ELSE IF b._embedding_param >= 0
                      THEN <<Kw("ORDER BY"), Kw("similarity_score"), Kw("DESC")>>
                      ELSE <<>>
        lim == limit_clause(b)
        select == IF b._embedding_param >= 0
                  THEN <<Kw("SELECT"), Kw("*"), Kw(","),
                         Kw("vector::similarity::cosine("), Name("embedding"), Kw(","),
                         Ph("param_", b._embedding_param), Kw(")"),
                         Kw("AS"), Kw("similarity_score"), Kw("FROM"), Name(b.table)>>
                  ELSE <<Kw("SELECT"), Kw("*"), Kw("FROM"), Name(b.table)>>
    IN  Query(lim.b, select \o where_clause(b) \o order \o lim.clause)

search(b, query_text) ==
    Returned([_add_param(b, Arg("query_text", Str(query_text)))
                 EXCEPT !._query_text_param = b._param_counter])

\* self._where_parts.insert(0, "<fulltext field> @@ <placeholder>")
InsertFulltext(b) ==
    [b EXCEPT !._where_parts =
        <<<<Name("text"), Kw("@@"), Ph("param_", b._query_text_param)>>>> \o @]

FullTextQueryBuilder_build(b) ==
    LET b1 == IF b._query_text_param >= 0 THEN InsertFulltext(b) ELSE b
        order == IF b1._order_by # <<>> THEN order_by_clause(b1)
                 ELSE <<Kw("ORDER BY"), Kw("relevance_score"), Kw("DESC")>>
        lim == limit_clause(b1)
    IN  Query(lim.b, <<Kw("SELECT"), Kw("*"), Kw(","), Kw("search::score(0)"),
                       Kw("AS"), Kw("relevance_score"), Kw("FROM"), Name(b1.table)>>
                     \o where_clause(b1) \o order \o lim.clause)

from_entities(b, entity_ids) ==
    Returned([b EXCEPT !._from_entity_ids =
                 [i \in DOMAIN entity_ids |-> Arg("entity_ids", Str(entity_ids[i]))]])

to_entities(b, entity_ids) ==
    Returned([b EXCEPT !._to_entity_ids =
                 [i \in DOMAIN entity_ids |-> Arg("entity_ids", Str(entity_ids[i]))]])

depth_range(b, min_depth, max_depth) ==
    IF \/ min_depth < 1 \/ min_depth > MaxDepth
       \/ max_depth < 1 \/ max_depth > MaxDepth
       \/ min_depth > max_depth
    THEN Raised(b)
    ELSE Returned([b EXCEPT !._min_depth = min_depth, !._max_depth = max_depth])

order_by_distance(b) == Returned([b EXCEPT !._order_by_distance = TRUE])

\* "->" * depth
path_traversal(depth) == [i \in 1..depth |-> Kw("->")]

\* The SELECT of one depth level.
depth_query(b, depth, from_list, edge_where) ==
    <<Kw("SELECT"), Kw("*"), Kw(","), Lit(Arg("depth", Num(depth))), Kw("AS"),
      Kw("distance"), Kw("FROM"), Name(b.table), Kw("WHERE"), Name("id"), Kw("IN")>>
    \o InList(from_list) \o path_traversal(depth) \o <<Name(b.edge_table)>> \o edge_where

\* The depth loop stopped after the first depth.
depth_queries_FirstOnly(b, first, last, from_list, edge_where) ==
    depth_query(b, first, from_list, edge_where)

\* " UNION ALL ".join of the SELECTs of the depths first..last.
RECURSIVE depth_queries(_, _, _, _, _)
depth_queries(b, first, last, from_list, edge_where) ==
    IF first > last THEN <<>>
    ELSE IF first = last THEN depth_query(b, first, from_list, edge_where)
    ELSE depth_query(b, first, from_list, edge_where) \o <<Kw("UNION ALL")>>
         \o depth_queries(b, first + 1, last, from_list, edge_where)

\* GraphQueryBuilder.build: the ids are bound at build time, then the limit,
\* whatever its value.
GraphQueryBuilder_build(b) ==
    IF b._from_entity_ids = <<>> \/ b._min_depth > b._max_depth THEN NoQuery(b)
    ELSE LET b1 == _add_params(b, b._from_entity_ids)
             from_list == Placeholders(b._param_counter, Len(b._from_entity_ids))
             b2 == _add_params(b1, b._to_entity_ids)
             to_list == Placeholders(b1._param_counter, Len(b._to_entity_ids))
             edge_where == IF b._to_entity_ids = <<>> THEN where_clause(b)
                           ELSE IF where_clause(b) # <<>>
                                THEN where_clause(b) \o <<Kw("AND"), Name("id"), Kw("IN")>>
                                     \o InList(to_list)
                                ELSE <<Kw("WHERE"), Name("id"), Kw("IN")>> \o InList(to_list)
             order == IF b._order_by_distance
                      THEN <<Kw("ORDER BY"), Kw("distance"), Kw("ASC")>> ELSE <<>>
             b3 == _add_param(b2, b._limit_value)
         IN  Query(b3, depth_queries(b, b._min_depth, b._max_depth, from_list, edge_where)
                       \o order \o <<Kw("LIMIT"), Ph("param_", b2._param_counter)>>)

with_fulltext_search(b, query_text) ==
    Returned([_add_param(b, Arg("query_text", Str(query_text)))
                 EXCEPT !._query_text_param = b._param_counter,
                        !._use_fulltext = TRUE])

with_vector_similarity(b, query_embedding) ==
    Returned([_add_param(b, Arg("query_embedding", query_embedding))
                 EXCEPT !._embedding_param = b._param_counter,
                        !._use_vector = TRUE])

\* with_graph_search that adds no tenant_id and is_deleted filter.
with_graph_search_Unfiltered(entity_ids, min_depth, max_depth, relation_type, by_distance, tenant_id) ==
    LET g1 == depth_range(from_entities(GraphQueryBuilder, entity_ids).b,
                          min_depth, max_depth)
        g3 == IF relation_type # ""
              THEN where(g1.b, "relation_type", Str(relation_type), "=").b
              ELSE g1.b
        g4 == IF by_distance THEN order_by_distance(g3).b ELSE g3
    IN  IF g1.raised THEN g1 ELSE Returned(g4)

\* with_graph_search: the GraphQueryBuilder it leaves in _graph_query_builder
\* (raised: depth_range raised and nothing was assigned). The tenant_id and
\* is_deleted filters are added when tenant_id is truthy; "" stands for None
\* and the empty string.
with_graph_search(entity_ids, min_depth, max_depth, relation_type, by_distance, tenant_id) ==
    LET g1 == depth_range(from_entities(GraphQueryBuilder, entity_ids).b,
                          min_depth, max_depth)
        g2 == IF tenant_id # ""
              THEN where(where(g1.b, "tenant_id", Str(tenant_id), "=").b,
                         "is_deleted", False, "=").b
              ELSE g1.b
        g3 == IF relation_type # ""
              THEN where(g2, "relation_type", Str(relation_type), "=").b
              ELSE g2
        g4 == IF by_distance THEN order_by_distance(g3).b ELSE g3
    IN  IF g1.raised THEN g1 ELSE Returned(g4)

\* _build_select_clause: the select list, with what _add_vector_select and
\* _add_fulltext_select append to _where_parts.
_add_vector_select(b) == where_is_not_none(b, "embedding").b

_add_fulltext_select(b) == InsertFulltext(b)

_build_order_by_clause(b) ==
    IF b._order_by # <<>> THEN order_by_clause(b)
    ELSE IF b._use_vector /\ b._use_fulltext
         THEN <<Kw("ORDER BY"), Kw("similarity_score"), Kw("DESC"), Kw(","),
                Kw("relevance_score"), Kw("DESC")>>
    ELSE IF b._use_vector THEN <<Kw("ORDER BY"), Kw("similarity_score"), Kw("DESC")>>
    ELSE IF b._use_fulltext THEN <<Kw("ORDER BY"), Kw("relevance_score"), Kw("DESC")>>
    ELSE <<>>

CombinedQueryBuilder_build(b) ==
    LET b1 == IF b._use_vector THEN _add_vector_select(b) ELSE b
        b2 == IF b._use_fulltext THEN _add_fulltext_select(b1) ELSE b1
        select == <<Kw("*")>>
                  \o (IF b._use_vector
                      THEN <<Kw(","), Kw("cosine_similarity("), Name("embedding"), Kw(","),
                             Ph("param_", b._embedding_param), Kw(")"), Kw("AS"),
                             Kw("similarity_score")>>
                      ELSE <<>>)
                  \o (IF b._use_fulltext
                      THEN <<Kw(","), Kw("search::score(0)"), Kw("AS"), Kw("relevance_score")>>
                      ELSE <<>>)
        lim == limit_clause(b2)
    IN  Query(lim.b, <<Kw("SELECT")>> \o select \o <<Kw("FROM"), Name(b2.table)>>
                     \o where_clause(b2) \o _build_order_by_clause(b2) \o lim.clause)

\* The decimal digits of k are the first digits of n: "$param_<k>" occurs in
\* "$param_<n>".
RECURSIVE DecPrefix(_, _)
DecPrefix(k, n) == k = n \/ (n >= 10 /\ DecPrefix(k, n \div 10))

\* graph_query.replace("$param_<key>", "$graph_param_<key>")
str_replace(sql, key) ==
    [i \in DOMAIN sql |->
        IF sql[i].k = "ph" /\ sql[i].x = "param_" /\ DecPrefix(key, sql[i].n)
        THEN Ph("graph_param_", sql[i].n)
        ELSE sql[i]]

\* The loop over graph_params.items(): the keys from key on, in the order
\* they were inserted.
RECURSIVE rename_params(_, _, _)
rename_params(sql, graph_params, key) ==
    IF \A n \in DOMAIN graph_params : n < key THEN sql
    ELSE rename_params(IF key \in DOMAIN graph_params THEN str_replace(sql, key) ELSE sql,
                       graph_params, key + 1)

\* build_graph_query on the graph builder g (never None here): the keys of
\* the params become "graph_param_<n>" and the text is rewritten key by key.
build_graph_query(g) ==
    LET q == GraphQueryBuilder_build(g)
    IN  IF q.raised THEN q
        ELSE [q EXCEPT !.sql = rename_params(q.sql, q.params, 0),
                       !.prefix = "graph_param_"]

\* build of the class of b.
build(b) ==
    CASE b.cls = "VectorQueryBuilder" -> VectorQueryBuilder_build(b)
      [] b.cls = "FullTextQueryBuilder" -> FullTextQueryBuilder_build(b)
      [] b.cls = "GraphQueryBuilder" -> GraphQueryBuilder_build(b)
      [] b.cls = "CombinedQueryBuilder" -> CombinedQueryBuilder_build(b)
      [] OTHER -> QueryBuilder_build(b)

\* ------------------------------------------ query builders: a client's calls
\* An executor call: its name, its tenant_id and the entity ids and depths it
\* was given for a graph search.
Call(name, tenant_id, entity_ids, min_depth, max_depth) ==
    [name |-> name, tenant_id |-> tenant_id, entity_ids |-> entity_ids,
     min_depth |-> min_depth, max_depth |-> max_depth]
NoExecutor == Call("none", "", <<>>, 1, 1)

\* One returned (sql, params) pair; part is its key in the dict of build_all.
Pair(part, q) == [part |-> part, sql |-> q.sql, prefix |-> q.prefix, params |-> q.params]

InitBuilder ==
    /\ qb = NoBuilder
    /\ gqb = NoBuilder
    /\ built = <<>>
    /\ executor = NoExecutor
    /\ ncalls = 0
    /\ raised = FALSE

\* A client constructs the builder b.
Construct(b) ==
    /\ qb.cls = "none"
    /\ executor = NoExecutor
    /\ qb' = b
    /\ gqb' = NoBuilder
    /\ built' = <<>>
    /\ executor' = NoExecutor
    /\ ncalls' = 0
    /\ raised' = FALSE
    /\ UNCHANGED nonBuilderVars

\* A client may call a method of qb, an object of one of the classes.
Callable(classes) ==
    /\ qb.cls \in classes
    /\ ncalls < MaxCalls

AnyBuilder == {"QueryBuilder", "VectorQueryBuilder", "FullTextQueryBuilder",
               "GraphQueryBuilder", "CombinedQueryBuilder"}

\* The call returned or raised, leaving the builder as r.b.
Called(r) ==
    /\ qb' = r.b
    /\ raised' = r.raised
    /\ ncalls' = ncalls + 1
    /\ UNCHANGED <<gqb, built, executor, nonBuilderVars>>

CallWhere(field, value, operator) ==
    /\ Callable(AnyBuilder)
    /\ Called(where(qb, field, value, operator))

CallLimit(count) ==
    /\ Callable(AnyBuilder)
    /\ Called(limit(qb, count))

CallSkip(count) ==
    /\ Callable({"QueryBuilder"})
    /\ Called(skip(qb, count))

CallOrderBy(field, direction) ==
    /\ Callable({"QueryBuilder"})
    /\ Called(order_by(qb, field, direction))

CallWithEmbeddingSimilarity(query_embedding) ==
    /\ Callable({"VectorQueryBuilder"})
    /\ Called(with_embedding_similarity(qb, query_embedding))

CallSearch(query_text) ==
    /\ Callable({"FullTextQueryBuilder"})
    /\ Called(search(qb, query_text))

CallFromEntities(entity_ids) ==
    /\ Callable({"GraphQueryBuilder"})
    /\ Called(from_entities(qb, entity_ids))

CallToEntities(entity_ids) ==
    /\ Callable({"GraphQueryBuilder"})
    /\ Called(to_entities(qb, entity_ids))

CallDepthRange(min_depth, max_depth) ==
    /\ Callable({"GraphQueryBuilder"})
    /\ Called(depth_range(qb, min_depth, max_depth))

CallOrderByDistance ==
    /\ Callable({"GraphQueryBuilder"})
    /\ Called(order_by_distance(qb))

CallWithFulltextSearch(query_text) ==
    /\ Callable({"CombinedQueryBuilder"})
    /\ Called(with_fulltext_search(qb, query_text))

CallWithVectorSimilarity(query_embedding) ==
    /\ Callable({"CombinedQueryBuilder"})
    /\ Called(with_vector_similarity(qb, query_embedding))

CallWithGraphSearch(entity_ids, min_depth, max_depth, relation_type, by_distance, tenant_id) ==
    /\ Callable({"CombinedQueryBuilder"})
    /\ LET g == with_graph_search(entity_ids, min_depth, max_depth, relation_type,
                                  by_distance, tenant_id)
       IN  /\ gqb' = IF g.raised THEN gqb ELSE g.b
           /\ raised' = g.raised
    /\ ncalls' = ncalls + 1
    /\ UNCHANGED <<qb, built, executor, nonBuilderVars>>

\* build() of the class of qb; built keeps the pair it returned.
CallBuild ==
    /\ Callable(AnyBuilder)
    /\ LET q == build(qb)
       IN  /\ qb' = q.b
           /\ built' = IF q.raised THEN <<>> ELSE <<Pair("query", q)>>
           /\ raised' = q.raised
    /\ ncalls' = ncalls + 1
    /\ UNCHANGED <<gqb, executor, nonBuilderVars>>

\* build_all: the main query, then the graph query when a graph builder is set.
build_all(b, g) ==
    LET main == CombinedQueryBuilder_build(b)
        graph == build_graph_query(g)
    IN  IF g.cls = "none"
        THEN [b |-> main.b, g |-> g, raised |-> FALSE, queries |-> <<Pair("main", main)>>]
        ELSE IF graph.raised
        THEN [b |-> main.b, g |-> graph.b, raised |-> TRUE, queries |-> <<>>]
        ELSE [b |-> main.b, g |-> graph.b, raised |-> FALSE,
              queries |-> <<Pair("main", main), Pair("graph", graph)>>]

CallBuildAll ==
    /\ Callable({"CombinedQueryBuilder"})
    /\ LET r == build_all(qb, gqb)
       IN  /\ qb' = r.b
           /\ gqb' = r.g
           /\ built' = r.queries
           /\ raised' = r.raised
    /\ ncalls' = ncalls + 1
    /\ UNCHANGED <<executor, nonBuilderVars>>

\* --------------------------------------- query builders: high-level executors
Limits == {20}
FilterFields == {"name", "tenant_id", "is_deleted", "name; DROP"}
FilterValues == {Str("t2"), Bool("True"), List(<<Str("t2")>>)}
\* filters.items() of a dict with no or one key.
Filters == {<<>>} \cup {<<[field |-> f, value |-> v]>> : f \in FilterFields, v \in FilterValues}
OptionalTexts == {"", "hello"}
OptionalEmbeddings == {List(<<>>), List(<<Num(1)>>)}
ExecutorEntityIds == {<<>>, <<"entity:1">>, <<"DROP x">>, <<"drop x", "entity:1">>}
                     \cup {[i \in 1..n |-> "entity:1"] : n \in {9, MaxEntityIds + 1}}
ExecutorDepthRanges == {<<1, 1>>, <<1, 2>>, <<2, 1>>}

\* for field, value in filters.items(): where_in for a list, where otherwise.
RECURSIVE apply_filters(_, _)
apply_filters(b, filters) ==
    IF filters = <<>> THEN Returned(b)
    ELSE LET f == Head(filters)
             r == IF f.value.t = "list" THEN where_in(b, f.field, f.value)
                  ELSE where(b, f.field, f.value, "=")
         IN  IF r.raised THEN r ELSE apply_filters(r.b, Tail(filters))

\* What an executor did: it raised, or it returned after issuing queries.
Raise == [raised |-> TRUE, queries |-> <<>>]
Issue(queries) == [raised |-> FALSE, queries |-> queries]

\* No builder is in use and no executor has queries out.
Idle ==
    /\ qb.cls = "none"
    /\ executor.name = "none"

\* The executor call was made; its builder is a local object.
Issued(call) ==
    /\ Idle
    /\ executor' = call
    /\ qb' = NoBuilder
    /\ gqb' = NoBuilder
    /\ ncalls' = 0
    /\ UNCHANGED nonBuilderVars

\* The queries execute_exact_match_query issues, or that it raised.
exact_match_queries(table, filters, tenant_id, count) ==
    LET b1 == where(QueryBuilder("QueryBuilder", table), "tenant_id", Str(tenant_id), "=").b
        b2 == where(b1, "is_deleted", False, "=").b
        r3 == limit(b2, count)
        r4 == apply_filters(r3.b, filters)
        q == QueryBuilder_build(r4.b)
    IN  IF r3.raised \/ r4.raised THEN Raise ELSE Issue(<<Pair("query", q)>>)

execute_exact_match_query(table, filters, tenant_id, count) ==
    /\ Issued(Call("execute_exact_match_query", tenant_id, <<>>, 1, 1))
    /\ built' = exact_match_queries(table, filters, tenant_id, count).queries
    /\ raised' = exact_match_queries(table, filters, tenant_id, count).raised

\* The queries execute_fulltext_query issues, or that it raised.
fulltext_queries(query_text, filters, tenant_id, count) ==
    LET b0 == search(FullTextQueryBuilder, query_text).b
        b1 == where(b0, "tenant_id", Str(tenant_id), "=").b
        b2 == where(b1, "is_deleted", False, "=").b
        r3 == limit(b2, count)
        r4 == apply_filters(r3.b, filters)
        q == FullTextQueryBuilder_build(r4.b)
    IN  IF r3.raised \/ r4.raised THEN Raise ELSE Issue(<<Pair("query", q)>>)

execute_fulltext_query(query_text, filters, tenant_id, count) ==
    /\ Issued(Call("execute_fulltext_query", tenant_id, <<>>, 1, 1))
    /\ built' = fulltext_queries(query_text, filters, tenant_id, count).queries
    /\ raised' = fulltext_queries(query_text, filters, tenant_id, count).raised

\* The queries execute_vector_query issues, or that it raised.
vector_queries(query_embedding, filters, tenant_id, count) ==
    LET b0 == with_embedding_similarity(VectorQueryBuilder, query_embedding).b
        b1 == where(b0, "tenant_id", Str(tenant_id), "=").b
        b2 == where(b1, "is_deleted", False, "=").b
        b3 == where_is_not_none(b2, "embedding").b
        r4 == limit(b3, count)
        r5 == apply_filters(r4.b, filters)
        q == VectorQueryBuilder_build(r5.b)
    IN  IF r4.raised \/ r5.raised THEN Raise ELSE Issue(<<Pair("query", q)>>)

execute_vector_query(query_embedding, filters, tenant_id, count) ==
    /\ Issued(Call("execute_vector_query", tenant_id, <<>>, 1, 1))
    /\ built' = vector_queries(query_embedding, filters, tenant_id, count).queries
    /\ raised' = vector_queries(query_embedding, filters, tenant_id, count).raised

\* The validation of entity_ids: the first 20, without those holding a keyword.
Suspicious(entity_id) == entity_id \in {"DROP x", "drop x"}
validated_ids(entity_ids) ==
    SelectSeq(SubSeq(entity_ids, 1, IF Len(entity_ids) < MaxEntityIds
                                    THEN Len(entity_ids) ELSE MaxEntityIds),
              LAMBDA entity_id : ~Suspicious(entity_id))

\* The queries execute_graph_query issues, or that it raised.
graph_queries(tenant_id, entity_ids, relation_type, count, min_depth, max_depth, by_distance) ==
    LET r0 == depth_range(from_entities(GraphQueryBuilder, validated_ids(entity_ids)).b,
                          min_depth, max_depth)
        b1 == where(r0.b, "tenant_id", Str(tenant_id), "=").b
        b2 == where(b1, "is_deleted", False, "=").b
        r3 == limit(b2, count)
        b4 == IF relation_type # ""
              THEN where(r3.b, "relation_type", Str(relation_type), "=").b ELSE r3.b
        b5 == IF by_distance THEN order_by_distance(b4).b ELSE b4
        q == GraphQueryBuilder_build(b5)
    IN  IF validated_ids(entity_ids) = <<>> THEN Issue(<<>>)
    ELSE IF r0.raised \/ r3.raised \/ q.raised THEN Raise
    ELSE Issue(<<Pair("query", q)>>)

execute_graph_query(tenant_id, entity_ids, relation_type, count, min_depth, max_depth, by_distance) ==
    /\ Issued(Call("execute_graph_query", tenant_id, entity_ids, min_depth, max_depth))
    /\ built' = graph_queries(tenant_id, entity_ids, relation_type, count, min_depth, max_depth, by_distance).queries
    /\ raised' = graph_queries(tenant_id, entity_ids, relation_type, count, min_depth, max_depth, by_distance).raised

\* The queries execute_combined_query issues, or that it raised.
combined_queries(tenant_id, table, filters, fulltext_query, vector_embedding, graph_entity_ids, graph_min_depth, graph_max_depth, graph_relation_type, graph_order_by_distance, count) ==
    LET b1 == where_eq(CombinedQueryBuilder(table), "tenant_id", Str(tenant_id)).b
        b2 == where_eq(b1, "is_deleted", False).b
        r3 == apply_filters(b2, filters)
        b4 == IF fulltext_query # "" THEN with_fulltext_search(r3.b, fulltext_query).b ELSE r3.b
        b5 == IF vector_embedding.items # <<>>
              THEN with_vector_similarity(b4, vector_embedding).b ELSE b4
        g == IF graph_entity_ids # <<>>
             THEN with_graph_search(graph_entity_ids, graph_min_depth, graph_max_depth,
                                    graph_relation_type, graph_order_by_distance, tenant_id)
             ELSE Returned(NoBuilder)
        r6 == limit(b5, count)
        queries == build_all(r6.b, g.b)
    IN  IF r3.raised \/ g.raised \/ r6.raised \/ queries.raised THEN Raise
    ELSE Issue(queries.queries)

execute_combined_query(tenant_id, table, filters, fulltext_query, vector_embedding, graph_entity_ids, graph_min_depth, graph_max_depth, graph_relation_type, graph_order_by_distance, count) ==
    /\ Issued(Call("execute_combined_query", tenant_id, graph_entity_ids,
                   graph_min_depth, graph_max_depth))
    /\ built' = combined_queries(tenant_id, table, filters, fulltext_query, vector_embedding, graph_entity_ids, graph_min_depth, graph_max_depth, graph_relation_type, graph_order_by_distance, count).queries
    /\ raised' = combined_queries(tenant_id, table, filters, fulltext_query, vector_embedding, graph_entity_ids, graph_min_depth, graph_max_depth, graph_relation_type, graph_order_by_distance, count).raised

\* The retrieval layer calls an executor with a tenant it has loaded.
ExecuteExactMatch ==
    /\ Idle
    /\ \E t \in Tables, filters \in Filters, tenant_id \in Tenants, count \in Limits :
           execute_exact_match_query(t, filters, tenant_id, count)

ExecuteFulltext ==
    /\ Idle
    /\ \E query_text \in QueryTexts, filters \in Filters, tenant_id \in Tenants,
          count \in Limits :
           execute_fulltext_query(query_text, filters, tenant_id, count)

ExecuteVector ==
    /\ Idle
    /\ \E query_embedding \in Embeddings, filters \in Filters, tenant_id \in Tenants,
          count \in Limits :
           execute_vector_query(query_embedding, filters, tenant_id, count)

ExecuteGraph ==
    /\ Idle
    /\ \E tenant_id \in Tenants, entity_ids \in ExecutorEntityIds,
          relation_type \in OptionalRelationTypes, count \in Limits,
          d \in ExecutorDepthRanges, by_distance \in BOOLEAN :
           execute_graph_query(tenant_id, entity_ids, relation_type, count, d[1], d[2],
                               by_distance)

ExecuteCombined ==
    /\ Idle
    /\ \E tenant_id \in Tenants, filters \in Filters, fulltext_query \in OptionalTexts,
          vector_embedding \in OptionalEmbeddings, graph_entity_ids \in ExecutorEntityIds,
          d \in ExecutorDepthRanges, graph_relation_type \in OptionalRelationTypes,
          graph_order_by_distance \in BOOLEAN, count \in Limits :
           execute_combined_query(tenant_id, "artifact_chunk", filters, fulltext_query,
                                  vector_embedding, graph_entity_ids, d[1], d[2],
                                  graph_relation_type, graph_order_by_distance, count)

NextBuilder ==
    \/ \E b \in Builders : Construct(b)
    \/ \E field \in Fields, value \in WhereValues, operator \in Operators :
           CallWhere(field, value, operator)
    \/ \E count \in Counts : CallLimit(count)
    \/ \E count \in Counts : CallSkip(count)
    \/ \E field \in Fields : CallOrderBy(field, "DESC")
    \/ \E query_embedding \in Embeddings : CallWithEmbeddingSimilarity(query_embedding)
    \/ \E query_text \in QueryTexts : CallSearch(query_text)
    \/ \E entity_ids \in EntityIdLists : CallFromEntities(entity_ids)
    \/ \E entity_ids \in EntityIdLists : CallToEntities(entity_ids)
    \/ \E d \in DepthRanges : CallDepthRange(d[1], d[2])
    \/ CallOrderByDistance
    \/ \E query_text \in QueryTexts : CallWithFulltextSearch(query_text)
    \/ \E query_embedding \in Embeddings : CallWithVectorSimilarity(query_embedding)
    \/ \E entity_ids \in EntityIdLists, relation_type \in OptionalRelationTypes,
          tenant_id \in OptionalTenants :
           CallWithGraphSearch(entity_ids, 1, 2, relation_type, TRUE, tenant_id)
    \/ CallBuild
    \/ CallBuildAll
    \/ ExecuteExactMatch
    \/ ExecuteFulltext
    \/ ExecuteVector
    \/ ExecuteGraph
    \/ ExecuteCombined

\* ========================================================= text normalization
\* A text is a sequence of characters.
MaxText == 6
MaxPasses == 2

Chars == {"a", " ", "\t", "\n"}
Whitespace == {" ", "\t", "\n"}
Texts == SeqsUpTo(Chars, MaxText)

\* The length of the longest prefix of s made of characters of set.
RECURSIVE RunLength(_, _)
RunLength(s, set) ==
    IF s = <<>> \/ Head(s) \notin set THEN 0 ELSE 1 + RunLength(Tail(s), set)

\* re.sub of a pattern "[set]{least,}" by repl: every maximal run of at least
\* least characters of set becomes repl.
RECURSIVE re_sub(_, _, _, _)
re_sub(s, set, least, repl) ==
    IF s = <<>> THEN <<>>
    ELSE LET run == RunLength(s, set)
             rest == SubSeq(s, run + 1, Len(s))
         IN  IF run = 0 THEN <<Head(s)>> \o re_sub(Tail(s), set, least, repl)
             ELSE IF run >= least THEN repl \o re_sub(rest, set, least, repl)
             ELSE SubSeq(s, 1, run) \o re_sub(rest, set, least, repl)

\* str.rstrip, str.lstrip and str.strip
RECURSIVE rstrip(_)
rstrip(s) ==
    IF s # <<>> /\ s[Len(s)] \in Whitespace THEN rstrip(SubSeq(s, 1, Len(s) - 1)) ELSE s

RECURSIVE lstrip(_)
lstrip(s) == IF s # <<>> /\ Head(s) \in Whitespace THEN lstrip(Tail(s)) ELSE s

strip(s) == lstrip(rstrip(s))

\* text.split("\n"): the lines of s, one more than its newlines.
RECURSIVE split_lines(_)
split_lines(s) ==
    LET first == RunLength(s, Chars \ {"\n"})
    IN  IF first = Len(s) THEN <<s>>
        ELSE <<SubSeq(s, 1, first)>> \o split_lines(SubSeq(s, first + 2, Len(s)))

\* "\n".join(lines)
RECURSIVE join_lines(_)
join_lines(lines) ==
    IF Len(lines) = 1 THEN lines[1]
    ELSE lines[1] \o <<"\n">> \o join_lines(Tail(lines))

\* TextProcessor.normalize_text
normalize_text(s) ==
    LET collapsed == re_sub(s, {"\n"}, 3, <<"\n", "\n">>)
        spaced == re_sub(collapsed, {" ", "\t"}, 1, <<" ">>)
        lines == [i \in DOMAIN split_lines(spaced) |-> rstrip(split_lines(spaced)[i])]
    IN  strip(join_lines(lines))

\* A text to normalize, and no text at hand.
InitText ==
    /\ text \in Texts
    /\ passes = 0

NoText ==
    /\ text = <<>>
    /\ passes = 0

\* normalize_text is applied to the text at hand.
NormalizeText ==
    /\ passes < MaxPasses
    /\ text' = normalize_text(text)
    /\ passes' = passes + 1
    /\ UNCHANGED nonTextVars

NextText == NormalizeText

\* ================================================================ retrieval
\* ------------------------------------------------------------ retrieval: data
TYPE_ONLY == "type_only"
MAJOR_TYPE_AND_NAME == "major_type_and_name"
SELECTED_ENTITIES == "selected_entities"
SELECTED_ENTITIES_AND_MUTUAL_RELATIONS == "selected_entities_and_mutual_relations"
RELATED_ARTIFACTS_DATA == "related_artifacts_data"
RELATED_ARTIFACTS_TEXT == "related_artifacts_text"
RetrieveResolution ==
    {TYPE_ONLY, MAJOR_TYPE_AND_NAME, SELECTED_ENTITIES,
     SELECTED_ENTITIES_AND_MUTUAL_RELATIONS, RELATED_ARTIFACTS_DATA,
     RELATED_ARTIFACTS_TEXT}

\* The store a retrieval reads: three entities and two artifacts of tenant t1,
\* artifact:2 soft-deleted or not, and an entity of tenant t2.
RetrieveEntityIds == {"entity:1", "entity:2", "entity:3"}
RetrieveArtifactIds == {"artifact:1", "artifact:2"}
RetrieveRecords ==
    {[id \in RetrieveEntityIds \cup RetrieveArtifactIds \cup {"entity:9"} |->
         [tb |-> IF id \in RetrieveArtifactIds THEN "artifact" ELSE "entity",
          tenant_id |-> IF id = "entity:9" THEN "t2" ELSE "t1",
          is_deleted |-> (id = "artifact:2" /\ deleted)]] : deleted \in BOOLEAN}

\* An edge as RELATE source -> relation -> target stores it: table relation,
\* the source in "in" and the target in "out".
Edge(source_id, target_id, tenant_id, is_deleted) ==
    [id |-> 1, tb |-> "relation", in |-> source_id, out |-> target_id,
     relation_type |-> "knows", tenant_id |-> tenant_id, is_deleted |-> is_deleted]

\* The edges the store can hold before a retrieval.
StoredEdges ==
    {Edge("entity:1", "entity:2", "t1", FALSE),
     Edge("entity:1", "entity:3", "t1", FALSE),
     Edge("entity:2", "entity:3", "t1", TRUE),
     Edge("entity:1", "artifact:1", "t1", FALSE),
     Edge("artifact:1", "entity:2", "t1", FALSE),
     Edge("artifact:2", "artifact:1", "t1", FALSE)}

\* Company.relation_types (list[str] | None): None means all types allowed.
RelationTypeLists ==
    {[is_none |-> TRUE, items |-> <<>>],
     [is_none |-> FALSE, items |-> <<"knows">>],
     [is_none |-> FALSE, items |-> <<"relation">>]}
Companies == [id : {"t1"}, relation_types : RelationTypeLists]
NoCompany == [id |-> NULL, relation_types |-> [is_none |-> TRUE, items |-> <<>>]]

\* RetrieveRequest: resolution is NULL when absent; entity_ids <<>> and text ""
\* stand for an absent or empty value (the code only tests their truth).
RetrieveRequests ==
    [resolution : {NULL} \cup RetrieveResolution,
     entity_ids : {<<>>, <<"entity:1", "entity:2">>,
                   <<"entity:1", "entity:2", "entity:3">>, <<"entity:1", "ghost">>},
     text : {"", "question"}]
NoRequestPayload == [resolution |-> NULL, entity_ids |-> <<>>, text |-> ""]

\* The route of a retrieval: its name and, for the abstract, the resolution
\* number of the query string.
Route(name, resolution) == [name |-> name, resolution |-> resolution]
NoRoute == Route("none", 0)

\* The resolution numbers GET /company/{company_id}/abstract is called with.
AbstractResolutions == 0..3

\* company_abstract: the RetrieveRequest built from the resolution number.
abstract_request(resolution) ==
    [resolution |-> IF resolution = 0 THEN MAJOR_TYPE_AND_NAME
                    ELSE IF resolution = 1 THEN SELECTED_ENTITIES_AND_MUTUAL_RELATIONS
                    ELSE IF resolution = 2 THEN RELATED_ARTIFACTS_DATA
                    ELSE RELATED_ARTIFACTS_TEXT,
     entity_ids |-> <<>>, text |-> ""]

\* RetrieveResponse: the ids of its entities and artifacts, its relations and
\* the parts its context is joined from (<<>>: context None).
RetrieveResponse(entities, relations, artifacts_, context) ==
    [entities |-> entities, relations |-> relations, artifacts |-> artifacts_,
     context |-> context]
NoResponse == RetrieveResponse(<<>>, {}, {}, <<>>)

\* A part of a context: the parts are joined with newlines.
Part(kind) == [part |-> kind, id |-> NULL, text |-> <<>>]
PartOf(kind, id, text_) == [part |-> kind, id |-> id, text |-> text_]

\* x or []
Items(optional) == IF optional.is_none THEN <<>> ELSE optional.items
Range(seq) == {seq[i] : i \in DOMAIN seq}

\* ----------------------------------------------- retrieval: selected entities
\* The record repository, get_by_id and find_one: the record stored under id
\* in table tb that is not soft-deleted (of tenant_id, when one is given).
Stored(tb, id, tenant_id) ==
    /\ id \in DOMAIN records
    /\ records[id].tb = tb
    /\ ~records[id].is_deleted
    /\ tenant_id \in {NULL, records[id].tenant_id}

\* _get_entities_and_ids: the ids of the entities Entity.get_by_id finds.
_get_entities_and_ids(entity_ids) ==
    SelectSeq(entity_ids, LAMBDA id : Stored("entity", id, NULL))

\* SELECT * FROM <relation_type> WHERE tenant_id = $tenant_id AND
\* is_deleted = false: the rows of that table.
edge_rows(relation_type, tenant_id) ==
    {e \in edges : e.tb = relation_type /\ e.tenant_id = tenant_id /\ ~e.is_deleted}

\* A row as a Relation: out becomes source_id and in becomes target_id.
as_relation(row) ==
    [id |-> row.id, source_id |-> row.out, target_id |-> row.in,
     relation_type |-> row.relation_type, tenant_id |-> row.tenant_id]

\* _find_mutual_relations: for each relation type of the company, the rows with
\* out IN $entity_ids AND in IN $entity_ids.
_find_mutual_relations(company_, entity_ids) ==
    UNION {{as_relation(row) :
               row \in {e \in edge_rows(relation_type, company_.id) :
                           e.out \in Range(entity_ids) /\ e.in \in Range(entity_ids)}} :
           relation_type \in Range(Items(company_.relation_types))}

\* id LIKE 'artifact:%'
is_artifact_id(id) == id \in RetrieveArtifactIds

\* _build_artifact_entity_mapping: the (artifact, entity) pairs of the rows
\* joining an entity of ids and an artifact, in either direction.
_build_artifact_entity_mapping(company_, ids, relation_type) ==
    LET rows == edge_rows(relation_type, company_.id)
    IN  {<<e.in, e.out>> : e \in {r \in rows : r.out \in ids /\ is_artifact_id(r.in)}}
        \cup {<<e.out, e.in>> : e \in {r \in rows : r.in \in ids /\ is_artifact_id(r.out)}}

\* _find_artifacts_connected_to_artifacts: the artifacts one edge away from an
\* artifact of artifact_ids.
_find_artifacts_connected_to_artifacts(company_, artifact_ids) ==
    UNION {_build_artifact_entity_mapping(company_, artifact_ids, relation_type) :
           relation_type \in Range(Items(company_.relation_types))}

\* _fetch_artifacts_by_ids: Artifact.find_one(id, tenant_id) for each id.
_fetch_artifacts_by_ids(company_, artifact_ids) ==
    {id \in artifact_ids : Stored("artifact", id, company_.id)}

\* _find_artifacts_connected_to_entities: the artifacts mapped to at least two
\* entities, and the artifacts connected to those.
_find_artifacts_connected_to_entities(company_, entity_ids) ==
    LET artifact_entity_map ==
            UNION {_build_artifact_entity_mapping(company_, Range(entity_ids), relation_type) :
                   relation_type \in Range(Items(company_.relation_types))}
        connected_artifact_ids ==
            {a \in RetrieveArtifactIds :
                Cardinality({p \in artifact_entity_map : p[1] = a}) >= 2}
        related_artifact_ids ==
            {p[1] : p \in _find_artifacts_connected_to_artifacts(company_,
                                                                  connected_artifact_ids)}
    IN  IF connected_artifact_ids = {} THEN {}
        ELSE _fetch_artifacts_by_ids(company_, connected_artifact_ids \cup related_artifact_ids)

\* -------------------------------------------------- retrieval: the six levels
\* build_introduction
build_introduction == <<Part("introduction")>>

\* retrieve_type_only
retrieve_type_only(company_, payload_) ==
    RetrieveResponse(<<>>, {}, {},
                     build_introduction \o <<Part("entity_types"), Part("relation_types"),
                                             Part(".")>>)

\* retrieve_major_type_and_name: Entity.find_many of the tenant for each entity
\* type of the company; every stored entity is of a type the company lists.
retrieve_major_type_and_name(company_, payload_) ==
    LET all_entities == SelectSeq(<<"entity:1", "entity:2", "entity:3">>,
                                  LAMBDA id : Stored("entity", id, company_.id))
    IN  RetrieveResponse(all_entities, {}, {},
                         build_introduction
                         \o (IF all_entities = <<>> THEN <<>> ELSE <<Part("names")>>))

entity_jsons(entity_ids) ==
    [i \in DOMAIN entity_ids |-> PartOf("entity_json", entity_ids[i], <<>>)]

\* retrieve_selected_entities
retrieve_selected_entities(company_, payload_) ==
    LET selected_entities == _get_entities_and_ids(payload_.entity_ids)
    IN  RetrieveResponse(selected_entities, {}, {},
                         build_introduction \o entity_jsons(selected_entities)
                         \o <<Part(".")>>)

\* retrieve_selected_entities_and_mutual_relations
retrieve_selected_entities_and_mutual_relations(company_, payload_) ==
    LET entity_ids == _get_entities_and_ids(payload_.entity_ids)
        mutual_relations == _find_mutual_relations(company_, entity_ids)
        connected_artifacts == _find_artifacts_connected_to_entities(company_, entity_ids)
    IN  IF payload_.entity_ids = <<>>
        THEN RetrieveResponse(<<>>, {}, {}, build_introduction)
        ELSE RetrieveResponse(entity_ids, mutual_relations, connected_artifacts,
                              build_introduction \o entity_jsons(entity_ids)
                              \o (IF mutual_relations = {} THEN <<>>
                                  ELSE <<Part("relation_jsons")>>)
                              \o <<Part(".")>>)

\* What the entity extraction, the name matching and the hybrid chunk search
\* of a level-5 retrieval can come back with.
Level5Finds ==
    {[entities |-> <<>>, artifacts |-> {}],
     [entities |-> <<"entity:1">>, artifacts |-> {"artifact:1"}]}

\* retrieve_related_artifacts_data
retrieve_related_artifacts_data(company_, payload_, found) ==
    IF payload_.text = ""
    THEN RetrieveResponse(<<>>, {}, {}, <<>>)
    ELSE RetrieveResponse(found.entities, {}, found.artifacts, <<Part("result_json")>>)

\* A sufficiency check that takes every answer for a yes.
_check_content_sufficiency_AlwaysYes(answer) == TRUE

\* What the LLM call of the sufficiency check can do: raise, or answer.
SufficiencyAnswers ==
    [raised : {FALSE}, content : {"yes", "Yes, it is.", "no", ""}]
    \cup {[raised |-> TRUE, content |-> ""]}

\* _check_content_sufficiency: content.strip().lower() starts with "yes"; an
\* exception or an empty answer is False.
_check_content_sufficiency(answer) ==
    /\ ~answer.raised
    /\ answer.content \in {"yes", "Yes, it is."}

\* Artifact.find_many(tenant_id, is_deleted=False): the live artifacts of the
\* tenant, in table order.
Artifact_find_many(tenant_id) ==
    SelectSeq(<<"artifact:1", "artifact:2">>, LAMBDA id : Stored("artifact", id, tenant_id))

\* Artifact.get_text: the texts of the artifact's chunks, joined.
get_text(id) == artifact_chunks[id]

\* retrieve_related_artifacts_text, from the sufficiency verdict on.
all_artifacts_response(company_, initial) ==
    LET all_artifacts == Artifact_find_many(company_.id)
        with_text == SelectSeq(all_artifacts, LAMBDA id : get_text(id) # <<>>)
        artifact_texts == [i \in DOMAIN with_text |->
                              PartOf("artifact_text", with_text[i], get_text(with_text[i]))]
    IN  RetrieveResponse(initial.entities, initial.relations, Range(all_artifacts),
                         build_introduction \o <<Part("all_artifacts_header")>>
                         \o artifact_texts
                         \o (IF initial.context = <<>> THEN <<>>
                             ELSE <<Part("initial_header")>> \o initial.context))

\* A _determine_resolution that looks at entity_ids before text.
_determine_resolution_EntityIdsFirst(payload_) ==
    IF payload_.resolution # NULL THEN payload_.resolution
    ELSE IF payload_.entity_ids # <<>> THEN SELECTED_ENTITIES_AND_MUTUAL_RELATIONS
    ELSE IF payload_.text # "" THEN RELATED_ARTIFACTS_DATA
    ELSE MAJOR_TYPE_AND_NAME

\* _determine_resolution
_determine_resolution(payload_) ==
    IF payload_.resolution # NULL THEN payload_.resolution
    ELSE IF payload_.text # "" THEN RELATED_ARTIFACTS_DATA
    ELSE IF payload_.entity_ids # <<>> THEN SELECTED_ENTITIES_AND_MUTUAL_RELATIONS
    ELSE MAJOR_TYPE_AND_NAME

\* ------------------------------------------------------- retrieval: the steps
NoRetrieval ==
    /\ route = NoRoute
    /\ request = NoRequestPayload
    /\ payload = NoRequestPayload
    /\ company = NoCompany
    /\ retpc = "idle"
    /\ initial_response = NoResponse
    /\ response = NoResponse
    /\ rcalls = <<>>
    /\ artifact_chunks = [id \in RetrieveArtifactIds |-> <<>>]

\* The store before a retrieval, and no retrieval started.
InitRetrieve ==
    /\ records \in RetrieveRecords
    /\ edges \in SUBSET StoredEdges
    /\ events = {}
    /\ IdleIngest
    /\ route = NoRoute
    /\ request = NoRequestPayload
    /\ payload = NoRequestPayload
    /\ company = NoCompany
    /\ retpc = "idle"
    /\ initial_response = NoResponse
    /\ response = NoResponse
    /\ rcalls = <<>>
    /\ artifact_chunks \in [RetrieveArtifactIds -> {<<>>, <<"chunk">>}]

\* GET /company/{company_id}/abstract?resolution=n: retrieval is called with
\* the request built from n.
company_abstract ==
    /\ retpc = "idle"
    /\ \E resolution \in AbstractResolutions, c \in Companies :
          /\ route' = Route("company_abstract", resolution)
          /\ request' = abstract_request(resolution)
          /\ company' = c
          /\ payload' = [abstract_request(resolution) EXCEPT
                            !.resolution = _determine_resolution(abstract_request(resolution))]
    /\ retpc' = "execute"
    /\ UNCHANGED <<initial_response, response, rcalls, artifact_chunks>>
    /\ UNCHANGED nonRetrieveVars

\* retrieval: the company is loaded and the resolution of the payload is set.
retrieval ==
    /\ retpc = "idle"
    /\ \E p \in RetrieveRequests, c \in Companies :
          /\ route' = Route("retrieve", 0)
          /\ request' = p
          /\ company' = c
          /\ payload' = [p EXCEPT !.resolution = _determine_resolution(p)]
    /\ retpc' = "execute"
    /\ UNCHANGED <<initial_response, response, rcalls, artifact_chunks>>
    /\ UNCHANGED nonRetrieveVars

\* The handler has returned res.
HandlerReturned(name, res) ==
    /\ response' = res
    /\ rcalls' = Append(rcalls, name)
    /\ retpc' = "returned"
    /\ UNCHANGED <<route, request, payload, company, initial_response, artifact_chunks>>
    /\ UNCHANGED nonRetrieveVars

\* _execute_retrieval: the handler of the payload's resolution runs; the one of
\* RELATED_ARTIFACTS_TEXT runs up to its level-5 call when there is a text.
_execute_retrieval ==
    /\ retpc = "execute"
    /\ \/ /\ payload.resolution = TYPE_ONLY
          /\ HandlerReturned("retrieve_type_only", retrieve_type_only(company, payload))
       \/ /\ payload.resolution = MAJOR_TYPE_AND_NAME
          /\ HandlerReturned("retrieve_major_type_and_name",
                      retrieve_major_type_and_name(company, payload))
       \/ /\ payload.resolution = SELECTED_ENTITIES
          /\ HandlerReturned("retrieve_selected_entities",
                      retrieve_selected_entities(company, payload))
       \/ /\ payload.resolution = SELECTED_ENTITIES_AND_MUTUAL_RELATIONS
          /\ HandlerReturned("retrieve_selected_entities_and_mutual_relations",
                      retrieve_selected_entities_and_mutual_relations(company, payload))
       \/ /\ payload.resolution = RELATED_ARTIFACTS_DATA
          /\ \E found \in Level5Finds :
                HandlerReturned("retrieve_related_artifacts_data",
                         retrieve_related_artifacts_data(company, payload, found))
       \/ /\ payload.resolution = RELATED_ARTIFACTS_TEXT
          /\ payload.text = ""
          /\ HandlerReturned("retrieve_related_artifacts_text", RetrieveResponse(<<>>, {}, {}, <<>>))
       \/ /\ payload.resolution = RELATED_ARTIFACTS_TEXT
          /\ payload.text # ""
          /\ \E found \in Level5Finds :
                initial_response' = retrieve_related_artifacts_data(company, payload, found)
          /\ rcalls' = rcalls \o <<"retrieve_related_artifacts_text",
                                   "retrieve_related_artifacts_data">>
          /\ retpc' = "sufficiency"
          /\ UNCHANGED <<route, request, payload, company, response, artifact_chunks>>
          /\ UNCHANGED nonRetrieveVars

\* retrieve_related_artifacts_text after its level-5 call, the LLM giving
\* answer: the sufficiency check, then the level-5 response as it is or the
\* load of all artifacts.
CheckSufficiencyAndFinish(answer) ==
    /\ retpc = "sufficiency"
    /\ IF _check_content_sufficiency(answer)
       THEN /\ response' = initial_response
            /\ rcalls' = Append(rcalls, "_check_content_sufficiency")
       ELSE /\ response' = all_artifacts_response(company, initial_response)
            /\ rcalls' = rcalls \o <<"_check_content_sufficiency", "Artifact.find_many">>
    /\ retpc' = "returned"
    /\ UNCHANGED <<route, request, payload, company, initial_response, artifact_chunks>>
    /\ UNCHANGED nonRetrieveVars

retrieve_related_artifacts_text ==
    /\ retpc = "sufficiency"
    /\ \E answer \in SufficiencyAnswers : CheckSufficiencyAndFinish(answer)

NextRetrieve ==
    retrieval \/ company_abstract \/ _execute_retrieval \/ retrieve_related_artifacts_text

\* ========================================================== hybrid retriever
\* Scores in tenths; 0 stands for 0.0 and for a score the metadata does not hold
\* (metadata.get(key, 0.0)).
ChunkIds == {"chunk:1", "chunk:2"}
MaxDocs == 2
DefaultScore == 5

\* A chunk Document: page_content is the chunk's text, metadata holds chunk_id
\* and the score of the strategy that found it.
Document(chunk_id, similarity_score, relevance_score) ==
    [page_content |-> <<"text of", chunk_id>>, chunk_id |-> chunk_id,
     similarity_score |-> similarity_score, relevance_score |-> relevance_score]

\* The retrievers of a HybridRetriever, in the order __init__ appends them.
Retrievers == <<"exact_match", "fulltext", "vector">>

\* The lists of at most MaxDocs documents of distinct chunks.
DocLists(docs) ==
    {l \in SeqsUpTo(docs, MaxDocs) :
        \A i, j \in DOMAIN l : i # j => l[i].chunk_id # l[j].chunk_id}

\* What a retriever's _aget_relevant_documents can return.
RetrieverResults(retriever) ==
    LET docs == CASE retriever = "exact_match" -> {Document(c, 0, 0) : c \in ChunkIds}
                  [] retriever = "fulltext" ->
                         {Document(c, 0, score) : c \in ChunkIds, score \in {0, 3, 9}}
                  [] retriever = "vector" ->
                         {Document(c, score, 0) : c \in ChunkIds, score \in {4, 8}}
    IN  [raised : {FALSE}, docs : DocLists(docs)] \cup {[raised |-> TRUE, docs |-> <<>>]}

\* all_documents: the documents of the retrievers that did not raise, in order.
RECURSIVE all_documents(_, _)
all_documents(results, i) ==
    IF i > Len(Retrievers) THEN <<>>
    ELSE (IF results[Retrievers[i]].raised THEN <<>> ELSE results[Retrievers[i]].docs)
         \o all_documents(results, i + 1)

doc_key(doc) == <<doc.page_content, doc.chunk_id, "", "">>

\* The first document of each key, in order.
RECURSIVE unique_documents(_, _)
unique_documents(docs, seen) ==
    IF docs = <<>> THEN <<>>
    ELSE IF doc_key(Head(docs)) \in seen THEN unique_documents(Tail(docs), seen)
    ELSE <<Head(docs)>> \o unique_documents(Tail(docs), seen \cup {doc_key(Head(docs))})

\* similarity_score or relevance_score or 0.5
get_score(doc) ==
    IF doc.similarity_score # 0 THEN doc.similarity_score
    ELSE IF doc.relevance_score # 0 THEN doc.relevance_score
    ELSE DefaultScore

\* list.sort(key=get_score, reverse=True): stable, highest score first.
RECURSIVE sort_by_score(_)
sort_by_score(docs) ==
    IF docs = <<>> THEN <<>>
    ELSE LET rest == sort_by_score(Tail(docs))
             before == SelectSeq(rest, LAMBDA d : get_score(d) > get_score(Head(docs)))
             after == SelectSeq(rest, LAMBDA d : get_score(d) <= get_score(Head(docs)))
         IN  before \o <<Head(docs)>> \o after

InitHybrid ==
    /\ retrieved \in [{Retrievers[i] : i \in DOMAIN Retrievers} ->
                     UNION {RetrieverResults(Retrievers[i]) : i \in DOMAIN Retrievers}]
    /\ \A i \in DOMAIN Retrievers : retrieved[Retrievers[i]] \in RetrieverResults(Retrievers[i])
    /\ hybrid_docs = <<>>
    /\ hybrid_pc = "idle"

NoHybridSession ==
    /\ retrieved = [r \in {Retrievers[i] : i \in DOMAIN Retrievers} |->
                   [raised |-> FALSE, docs |-> <<>>]]
    /\ hybrid_docs = <<>>
    /\ hybrid_pc = "idle"

\* HybridRetriever._aget_relevant_documents
HybridRetriever_aget_relevant_documents ==
    /\ hybrid_pc = "idle"
    /\ hybrid_docs' = sort_by_score(unique_documents(all_documents(retrieved, 1), {}))
    /\ hybrid_pc' = "returned"
    /\ UNCHANGED retrieved
    /\ UNCHANGED nonHybridVars

NextHybrid == HybridRetriever_aget_relevant_documents

\* ========================================================== ingestion chain
MaxExtracted == 2

\* A cached prompt, by the keys it holds; "none": the name is not cached.
PromptConfigs == {"none", "system+human", "system+user"}
PromptNames == {"entity_extraction", "relation_extraction"}

\* The items of an extracted list.
ExtractedLists == {[i \in 1..n |-> "item"] : n \in 0..MaxExtracted}

\* What client.chat.completions.create can do: raise, or answer with a content
\* that is empty, not JSON, a JSON value that is not an object, or a JSON
\* object whose "entities" / "relations" key is missing, a list, another value
\* that is true (an object) or one that is false (null).
LlmOutcomes ==
    {[kind |-> k, items |-> <<>>] :
        k \in {"raise", "empty", "malformed", "not_object", "missing", "object", "null"}}
    \cup {[kind |-> "list", items |-> l] : l \in ExtractedLists}

\* What an extraction gives its caller.
Raises == [raised |-> TRUE, value |-> <<>>]
Gives(value) == [raised |-> FALSE, value |-> value]
NoChainCall == [name |-> "none", entities |-> <<>>]

\* PromptService.get_prompt: the cached prompt; on a cache miss the call
\* _load_prompt_from_file(prompt_name, self._prompts_dir) passes one argument
\* too many and raises.
get_prompt(prompt_name) ==
    IF prompt_cache[prompt_name] # "none"
    THEN [raised |-> FALSE, config |-> prompt_cache[prompt_name]]
    ELSE [raised |-> TRUE, config |-> "none"]

\* The try block of extract_entities and extract_relations: the completion,
\* json.loads and result.get(key, []).
parse_completion(outcome) ==
    CASE outcome.kind = "list" -> outcome.items
      [] outcome.kind = "object" -> <<"item">>
      [] OTHER -> <<>>

\* The prompt lookup and template construction before the try block, then the
\* try block: prompt_config["human"] raises KeyError without that key.
extract(prompt_name, outcome) ==
    LET prompt_config == get_prompt(prompt_name)
    IN  IF prompt_config.raised THEN Raises
        ELSE IF prompt_config.config # "system+human" THEN Raises
        ELSE Gives(parse_completion(outcome))

InitChain ==
    /\ prompt_cache \in [PromptNames -> PromptConfigs]
    /\ llm \in LlmOutcomes
    /\ chain_call = NoChainCall
    /\ chain_out = Gives(<<>>)

NoChainSession ==
    /\ prompt_cache = [n \in PromptNames |-> "none"]
    /\ llm = [kind |-> "raise", items |-> <<>>]
    /\ chain_call = NoChainCall
    /\ chain_out = Gives(<<>>)

\* IngestionChain.extract_entities
extract_entities ==
    /\ chain_call = NoChainCall
    /\ chain_call' = [name |-> "extract_entities", entities |-> <<>>]
    /\ chain_out' = extract("entity_extraction", llm)
    /\ UNCHANGED <<prompt_cache, llm>>
    /\ UNCHANGED nonChainVars

\* IngestionChain.extract_relations: fewer than two entities give [] at once.
extract_relations ==
    /\ chain_call = NoChainCall
    /\ \E entities \in ExtractedLists :
          /\ chain_call' = [name |-> "extract_relations", entities |-> entities]
          /\ chain_out' = IF Len(entities) < 2 THEN Gives(<<>>)
                          ELSE extract("relation_extraction", llm)
    /\ UNCHANGED <<prompt_cache, llm>>
    /\ UNCHANGED nonChainVars

NextChain == extract_entities \/ extract_relations

\* ======================================================= full-text retriever
\* A row of a chunk query: the chunk, its relevance_score in tenths (0 for a
\* row without one) and whether the query text is in its text, case ignored.
ChunkRows == [chunk_id : ChunkIds, relevance_score : {3, 9}, contains : BOOLEAN]

\* What a query for chunks can do: raise a driver error, or return at most
\* MaxDocs rows of distinct chunks.
QueryOutcomes ==
    {[raised |-> FALSE, rows |-> l] :
        l \in {r \in SeqsUpTo(ChunkRows, MaxDocs) :
                  \A i, j \in DOMAIN r : i # j => r[i].chunk_id # r[j].chunk_id}}
    \cup {[raised |-> TRUE, rows |-> <<>>]}

\* The Document of a row with its relevance_score.
ChunkDocument(row, relevance_score) == Document(row.chunk_id, 0, relevance_score)

\* _fallback_like_search: the builder chain query("knowledge_chunk")
\* .where_eq("tenant_id", ...).where_eq("is_deleted", False)
\* .where("text", query_text, operator="~").limit(...) runs before the try
\* block; then the rows of the query scored 1.0 or 0.5, [] when it raises.
_fallback_like_search(tenant_id, query_text, outcome) ==
    LET b1 == where_eq(QueryBuilder("QueryBuilder", "knowledge_chunk"),
                       "tenant_id", Str(tenant_id))
        b2 == where_eq(b1.b, "is_deleted", False)
        b3 == where(b2.b, "text", Str(query_text), "~")
        b4 == limit(b3.b, MaxDocs)
    IN  IF b1.raised \/ b2.raised \/ b3.raised \/ b4.raised THEN Raises
        ELSE IF outcome.raised THEN Gives(<<>>)
        ELSE Gives([i \in DOMAIN outcome.rows |->
                       ChunkDocument(outcome.rows[i],
                                     IF outcome.rows[i].contains THEN 10 ELSE 5)])

\* FullTextRetriever._aget_relevant_documents: the rows of the full-text
\* query with their scores; on an exception the fallback.
FullTextRetriever_documents(tenant_id, query_text, outcome, like_outcome) ==
    IF outcome.raised THEN _fallback_like_search(tenant_id, query_text, like_outcome)
    ELSE Gives([i \in DOMAIN outcome.rows |->
                   ChunkDocument(outcome.rows[i], outcome.rows[i].relevance_score)])

InitFulltext ==
    /\ fulltext_rows \in QueryOutcomes
    /\ like_rows \in QueryOutcomes
    /\ fulltext_out = Gives(<<>>)
    /\ fulltext_pc = "idle"

NoFulltextSession ==
    /\ fulltext_rows = [raised |-> FALSE, rows |-> <<>>]
    /\ like_rows = [raised |-> FALSE, rows |-> <<>>]
    /\ fulltext_out = Gives(<<>>)
    /\ fulltext_pc = "idle"

FullTextRetriever_aget_relevant_documents ==
    /\ fulltext_pc = "idle"
    /\ \E tenant_id \in Tenants, query_text \in QueryTexts :
          fulltext_out' = FullTextRetriever_documents(tenant_id, query_text,
                                                      fulltext_rows, like_rows)
    /\ fulltext_pc' = "returned"
    /\ UNCHANGED <<fulltext_rows, like_rows>>
    /\ UNCHANGED nonFulltextVars

NextFulltext == FullTextRetriever_aget_relevant_documents

\* The worker and its queue with nothing started yet.
IdleWorker ==
    /\ jobs = <<>>
    /\ artifacts = [a \in ArtifactIds |-> [raw_text |-> [is_none |-> FALSE, text_chunks |-> <<>>]]]
    /\ chunks = [a \in ArtifactIds |-> <<>>]
    /\ queue = <<>>
    /\ shutdown = FALSE
    /\ wpc = [w \in Workers |-> "loop"]
    /\ wmsg = [w \in Workers |-> NULL]
    /\ wjob = [w \in Workers |-> NoJob]
    /\ wart = [w \in Workers |-> NULL]
    /\ wpending = [w \in Workers |-> <<>>]
    /\ wlog = [w \in Workers |-> NoLog]

InitIngestRequest == InitIngest /\ IdleWorker /\ InitBuilder /\ NoText /\ NoRetrieval /\ NoHybridSession /\ NoChainSession /\ NoFulltextSession

SpecIngest == InitIngestRequest /\ [][NextIngest]_vars

InitBuilderSession == InitBuilder /\ IdleWorker /\ InitIngest /\ NoText /\ NoRetrieval /\ NoHybridSession /\ NoChainSession /\ NoFulltextSession

SpecBuilder == InitBuilderSession /\ [][NextBuilder]_vars

InitTextSession == InitText /\ IdleWorker /\ InitIngest /\ InitBuilder /\ NoRetrieval /\ NoHybridSession /\ NoChainSession /\ NoFulltextSession

InitRetrieveSession == InitRetrieve /\ IdleWorker /\ InitBuilder /\ NoText /\ NoHybridSession /\ NoChainSession /\ NoFulltextSession

SpecRetrieve == InitRetrieveSession /\ [][NextRetrieve]_vars

SpecText == InitTextSession /\ [][NextText]_vars

InitHybridSession == InitHybrid /\ IdleWorker /\ InitIngest /\ InitBuilder /\ NoText /\ NoRetrieval /\ NoChainSession /\ NoFulltextSession

SpecHybrid == InitHybridSession /\ [][NextHybrid]_vars

InitChainSession == InitChain /\ IdleWorker /\ InitIngest /\ InitBuilder /\ NoText /\ NoRetrieval /\ NoHybridSession /\ NoFulltextSession

SpecChain == InitChainSession /\ [][NextChain]_vars

InitFulltextSession == InitFulltext /\ IdleWorker /\ InitIngest /\ InitBuilder /\ NoText /\ NoRetrieval /\ NoChainSession /\ NoHybridSession

SpecFulltext == InitFulltextSession /\ [][NextFulltext]_vars

Init == InitWorker /\ InitIngest /\ InitBuilder /\ NoText /\ NoRetrieval /\ NoHybridSession /\ NoChainSession /\ NoFulltextSession

Next == NextWorker \/ NextIngest \/ NextBuilder \/ NextText \/ NextRetrieve \/ NextHybrid \/ NextChain \/ NextFulltext

Spec == Init /\ [][Next]_vars

SpecWorker == Init /\ [][NextWorker]_vars

\* N worker processes on the one queue (N = 2): each runs run_worker on its
\* own, the store and the Redis list are what they share.
WorkerPool == {"w1", "w2"}

\* The pool started on a store with one artifact whose text splits into at
\* most one chunk, or has no text at all.
InitWorkerPool ==
    /\ jobs = <<>>
    /\ artifacts \in [ArtifactIds -> [raw_text : {t \in RawTexts : Len(t.text_chunks) <= 1}]]
    /\ chunks = [a \in ArtifactIds |-> <<>>]
    /\ queue = <<>>
    /\ shutdown = FALSE
    /\ wpc = [w \in WorkerPool |-> "loop"]
    /\ wmsg = [w \in WorkerPool |-> NULL]
    /\ wjob = [w \in WorkerPool |-> NoJob]
    /\ wart = [w \in WorkerPool |-> NULL]
    /\ wpending = [w \in WorkerPool |-> <<>>]
    /\ wlog = [w \in WorkerPool |-> NoLog]

\* The job is created and queued, its message can be delivered again, and
\* every worker of the pool takes its steps.
NextWorkerPool ==
    \/ \E j \in JobIds, a \in ArtifactIds : create_artifact_processing_job(j, a)
    \/ \E m \in JobIds : enqueue(m)
    \/ \E w \in WorkerPool : WorkerStep(w)

InitWorkerPoolSession == InitWorkerPool /\ InitIngest /\ InitBuilder /\ NoText /\ NoRetrieval /\ NoHybridSession /\ NoChainSession /\ NoFulltextSession

SpecWorkerPool == InitWorkerPoolSession /\ [][NextWorkerPool]_vars

\* The event loop keeps running the worker coroutine: dequeue returns within
\* its block_timeout and every awaited call of ingest returns or raises.
SpecWorkerFair == SpecWorker /\ \A w \in Workers : WF_vars(WorkerStep(w))

\* ===================================================================== claims

\* C1: when chunking, embedding or persisting chunks raises while the worker
\* processes a job, the job ends FAILED with error_message set (it does not
\* stay PROCESSING). Stated at the point where run_worker has caught the error.
IngestErrors == {"raised_chunking", "raised_embedding", "raised_persisting"}
C1_FailedOnUncaughtError ==
    \A w \in Workers :
        (wpc[w] = "except" /\ wlog[w].event \in IngestErrors /\ wlog[w].job \in DOMAIN jobs)
            => /\ jobs[wlog[w].job].status = FAILED
               /\ jobs[wlog[w].job].error_message # NULL

\* C2: a message for a job that is missing or whose stored status is not QUEUED
\* changes nothing: the step that handles it leaves every job and every chunk
\* as it was and ends the handling of the message.
C2_SkipLeavesUntouched ==
    [][\A w \in Workers :
         (/\ wpc[w] = "find_job"
          /\ wpc'[w] # "find_job"
          /\ (wmsg[w] \notin DOMAIN jobs \/ ~is_queued(jobs[wmsg[w]].status)))
            => (jobs' = jobs /\ chunks' = chunks /\ wpc'[w] = "loop")]_vars

C2_Witness ==
    \E w \in Workers :
        /\ wpc[w] = "loop"
        /\ wlog[w].event = "job_not_queued"
        /\ wlog[w].job \in DOMAIN jobs
        /\ jobs[wlog[w].job].status = COMPLETED

\* C3: in every reachable state a job has completed_at set if and only if its
\* status is COMPLETED or FAILED.
C3_CompletedAtIffFinished ==
    \A j \in DOMAIN jobs :
        (jobs[j].completed_at # NULL) <=> (jobs[j].status \in {COMPLETED, FAILED})

\* C10: after the worker has processed an artifact, the chunk_index values of
\* its persisted chunks are exactly 0..N-1, N the number of persisted chunks.
Dense(indexes) == {indexes[i] : i \in 1..Len(indexes)} = 0..(Len(indexes) - 1)
C10_ChunkIndexDense ==
    \A w \in Workers :
        (wpc[w] = "loop" /\ wlog[w].event = "completed") => Dense(chunks[wlog[w].art])

\* C6: every edge an ingest request of tenant T has created or updated (it
\* carries tenant_id = T) has both endpoints owned by T, also when an entity of
\* the request names, by entity_id, a record of another tenant.
C6_EdgeEndpointsInTenant ==
    \A e \in edges :
        /\ records[e.in].tenant_id = e.tenant_id
        /\ records[e.out].tenant_id = e.tenant_id

\* C7: the resolution of a relation with an endpoint found in neither mapping
\* nor the tenant's entities collects nothing, appends a warning naming each
\* such id and goes on (the relations collected before stay collected, the
\* next step is the one the rest of the request asks for); a relation with
\* both endpoints found is appended to the relations returned for upsert.
Unresolvable(id) ==
    /\ id \notin DOMAIN entity_mapping
    /\ id \notin DOMAIN artifact_mapping
    /\ ~(/\ id \in DOMAIN records
         /\ records[id].tb = "entity"
         /\ records[id].tenant_id = req.tenant_id)

C7_UnresolvableSkippedWithWarning ==
    [][(rpc = "relations" /\ req'.relations = req.relations - 1) =>
         LET relation == rlog'.relation
             missing == {id \in {relation.from_entity_id, relation.to_entity_id} :
                            Unresolvable(id)}
             appended == SubSeq(warnings', Len(warnings) + 1, Len(warnings'))
         IN /\ SubSeq(warnings', 1, Len(warnings)) = warnings
            /\ {appended[i] : i \in 1..Len(appended)} = missing
            /\ rpc' = PhaseOf(req')
            /\ IF missing # {}
               THEN all_relations' = all_relations
               ELSE /\ Len(all_relations') = Len(all_relations) + 1
                    /\ SubSeq(all_relations', 1, Len(all_relations)) = all_relations
                    /\ all_relations'[Len(all_relations')].relation_type
                           = relation.relation_type]_vars

C7_Witness ==
    /\ rpc = "upsert_relations"
    /\ rlog.collected
    /\ Len(all_relations) = 1
    /\ \E i \in 1..Len(warnings) : warnings[i] = "ghost"

\* C8: an upsert of an entity whose entity_id names a stored entity returns
\* that entity's db id, creates no record, and writes exactly one event, of
\* type entity_updated, for it; two such upserts write exactly two.
C8_UpsertExistingIsUpdate ==
    [][(rpc = "entities" /\ Len(saved_entities') = Len(saved_entities) + 1) =>
         LET saved == saved_entities'[Len(saved_entities')]
             entity_id == saved.entity.entity_id
         IN (entity_id \in DOMAIN records /\ records[entity_id].tb = "entity") =>
               /\ saved.saved_id = entity_id
               /\ DOMAIN records' = DOMAIN records
               /\ events \subseteq events'
               /\ Cardinality(events' \ events) = 1
               /\ \A ev \in events' \ events :
                      ev.entity_id = entity_id /\ ev.event_type = "entity_updated"]_vars

C8_Witness ==
    /\ DOMAIN records = StoredEntityIds
    /\ \E id \in StoredEntityIds :
          Cardinality({ev \in events :
                          ev.entity_id = id /\ ev.event_type = "entity_updated"}) = 2

\* C9: once upsert_relation has returned for a relation (s, t, rt) of the
\* request, Relation.find_one(rt, source_id = s, target_id = t) returns exactly
\* the edge of the upsert, with source_id = s and target_id = t.
C9_RelationRoundTrip ==
    \A k \in 1..Len(upserts) :
        upserts[k].phase = "done" =>
            Relation_find_one(all_relations[k].relation_type,
                              all_relations[k].from_entity_id,
                              all_relations[k].to_entity_id)
                = {[id |-> upserts[k].result.id,
                    source_id |-> all_relations[k].from_entity_id,
                    target_id |-> all_relations[k].to_entity_id,
                    relation_type |-> all_relations[k].relation_type,
                    tenant_id |-> req.tenant_id]}

\* The token tok names a key of the params of the pair q.
IsKey(q, tok) == tok.x = q.prefix /\ tok.n \in DOMAIN q.params

SelectStarts(sql) == {s \in DOMAIN sql : sql[s] = Kw("SELECT")}
SelectEnd(sql, s) ==
    IF \E e \in SelectStarts(sql) : e > s
    THEN (CHOOSE e \in SelectStarts(sql) : e > s /\ \A f \in SelectStarts(sql) : f > s => e <= f) - 1
    ELSE Len(sql)

\* The conditions "field = $p" of the WHERE conjunction of the SELECT of q
\* that starts at s, each with the value bound to $p.
EqConditions(q, s) ==
    {[field |-> q.sql[j].x, value |-> q.params[q.sql[j + 2].n]] :
        j \in {m \in (s + 1)..(SelectEnd(q.sql, s) - 2) :
                  /\ q.sql[m].k = "name"
                  /\ q.sql[m - 1] \in {Kw("WHERE"), Kw("AND")}
                  /\ q.sql[m + 1] = Kw("=")
                  /\ q.sql[m + 2].k = "ph"
                  /\ IsKey(q, q.sql[m + 2])}}

\* The rows of a table, by the two columns the filters are about, and the
\* rows the SELECT of q that starts at s can return: those no "field = $p"
\* condition of its conjunction rules out.
Rows == [tenant_id : {Str(t) : t \in Tenants}, is_deleted : {False, Bool("True")}]
CanReturn(q, s, row) ==
    /\ \A j \in DOMAIN q.sql : q.sql[j] # Kw("OR")
    /\ \A c \in EqConditions(q, s) :
           /\ c.field = "tenant_id" => c.value = Arg("value", row.tenant_id)
           /\ c.field = "is_deleted" => c.value = Arg("value", row.is_deleted)

\* C5: every query a high-level executor issued (exact-match, full-text,
\* vector, graph, main and graph part of combined) carries, in every SELECT,
\* the condition tenant_id = $p bound to the tenant of the call and the
\* condition is_deleted = $p bound to False, so no SELECT of it can return a
\* row of another tenant or a soft-deleted row.
C5_ExecutorQueriesTenantFiltered ==
    executor.name # "none" =>
        \A i \in DOMAIN built : \A s \in SelectStarts(built[i].sql) :
            /\ [field |-> "tenant_id", value |-> Arg("value", Str(executor.tenant_id))]
                   \in EqConditions(built[i], s)
            /\ [field |-> "is_deleted", value |-> Arg("value", False)]
                   \in EqConditions(built[i], s)
            /\ \A row \in Rows :
                   CanReturn(built[i], s, row) =>
                       /\ row.tenant_id = Str(executor.tenant_id)
                       /\ row.is_deleted = False

\* execute_combined_query issued a main query and a graph query of two depths.
C5_Witness ==
    /\ executor.name = "execute_combined_query"
    /\ Len(built) = 2
    /\ built[2].part = "graph"
    /\ Cardinality(SelectStarts(built[2].sql)) = 2

\* C11: normalize_text is idempotent: a text that normalize_text returned is
\* returned unchanged by normalize_text, for every text of letters, spaces,
\* tabs and newlines.
C11_NormalizeIdempotent ==
    passes >= 1 => normalize_text(text) = text

\* The WHERE part the last call appended to b.
LastWherePart(b) == b._where_parts[Len(b._where_parts)]

\* C12: where_in(f, []) raises, and where_in(f, [a, b]) on a valid field
\* returns having appended "f IN [$p1, $p2]" with two distinct placeholders,
\* p1 bound to a and p2 bound to b in params.
C12_WhereInPlaceholders ==
    [][\A field \in Fields, values \in {v \in WhereValues : v.t = "list"} :
          CallWhere(field, values, "IN") =>
              /\ values.items = <<>> => raised'
              /\ (Len(values.items) = 2 /\ validate_field_name(field)) =>
                    /\ ~raised'
                    /\ \E p1, p2 \in DOMAIN qb'._params :
                          /\ p1 # p2
                          /\ LastWherePart(qb') =
                                 <<Name(field), Kw("IN"), Kw("["),
                                   Ph("param_", p1), Ph("param_", p2), Kw("]")>>
                          /\ qb'._params[p1] = Arg("value", values).items[1]
                          /\ qb'._params[p2] = Arg("value", values).items[2]]_vars

\* C13: build() of a base QueryBuilder on which limit(n) was the only call
\* returns sql containing LIMIT and params in which param_0 is n.
C13_BaseLimitBound ==
    [][(/\ CallBuild
        /\ qb.cls = "QueryBuilder"
        /\ ncalls = 1
        /\ qb._limit_value # None) =>
           /\ Len(built') = 1
           /\ \E j \in DOMAIN built'[1].sql : built'[1].sql[j] = Kw("LIMIT")
           /\ 0 \in DOMAIN built'[1].params
           /\ built'[1].params[0] = qb._limit_value]_vars

\* The graph query sql has one SELECT for each depth of a..b, in this order,
\* the SELECT of depth d projecting "d AS distance", and a UNION ALL before
\* each SELECT but the first and nowhere else.
DepthSelects(sql, a, b) ==
    LET starts == SelectStarts(sql)
        Before(s) == Cardinality({t \in starts : t < s})
    IN  /\ Cardinality(starts) = b - a + 1
        /\ \A s \in starts :
              /\ SubSeq(sql, s + 1, s + 5) =
                     <<Kw("*"), Kw(","), Lit(Arg("depth", Num(a + Before(s)))),
                       Kw("AS"), Kw("distance")>>
              /\ Before(s) > 0 => sql[s - 1] = Kw("UNION ALL")
        /\ Cardinality({j \in DOMAIN sql : sql[j] = Kw("UNION ALL")}) = b - a
        /\ (a = 1 /\ b = 1) =>
              /\ Cardinality(starts) = 1
              /\ \A j \in DOMAIN sql : sql[j] # Kw("UNION ALL")

\* C14: a graph query built with depth_range(a, b), by build() of a
\* GraphQueryBuilder or as the graph part of build_all(), has exactly b-a+1
\* SELECTs, one for each depth d of a..b projecting d AS distance, joined by
\* UNION ALL; with a = b = 1 it is a single SELECT without UNION ALL.
C14_GraphDepthSelects ==
    [][/\ (CallBuild /\ qb.cls = "GraphQueryBuilder" /\ ~raised') =>
              DepthSelects(built'[1].sql, qb._min_depth, qb._max_depth)
       /\ (CallBuildAll /\ gqb.cls = "GraphQueryBuilder" /\ ~raised') =>
              DepthSelects(built'[2].sql, gqb._min_depth, gqb._max_depth)]_vars

\* A graph query of the depths 2..4 was built: three SELECTs.
C14_Witness ==
    /\ qb.cls = "GraphQueryBuilder"
    /\ qb._min_depth = 2
    /\ qb._max_depth = 4
    /\ Len(built) = 1
    /\ Cardinality(SelectStarts(built[1].sql)) = 3

\* The keys of the starting ids a graph query binds.
StartingIds(q) == {k \in DOMAIN q.params : q.params[k].arg = "entity_ids"}

\* C15: every graph query issued by execute_graph_query or as the graph part
\* of execute_combined_query binds at most 20 starting ids, none of them
\* holding SELECT, DROP, DELETE, INSERT or UPDATE in any letter case; a call
\* given such an id, and a valid depth range, does not raise.
C15_GraphIdsValidated ==
    executor.name \in {"execute_graph_query", "execute_combined_query"} =>
        /\ \A i \in DOMAIN built :
              /\ Cardinality(StartingIds(built[i])) <= 20
              /\ \A k \in StartingIds(built[i]) : ~Suspicious(built[i].params[k].s)
        /\ (/\ \E i \in DOMAIN executor.entity_ids : Suspicious(executor.entity_ids[i])
            /\ executor.min_depth <= executor.max_depth) => ~raised

\* The worker is about to chunk an artifact whose chunks would exceed MaxChunks:
\* the model follows the job no further.
ChunkBoundReached(w) ==
    /\ wpc[w] = "find_artifact"
    /\ wjob[w].rec.artifact_id \in DOMAIN artifacts
    /\ LET a == wjob[w].rec.artifact_id
       IN  /\ ~artifacts[a].raw_text.is_none
           /\ Len(chunks[a]) + Len(artifacts[a].raw_text.text_chunks) > MaxChunks

\* C16: the worker loop ends only because of the shutdown signal: it ends at
\* the loop test with the signal set, and an empty dequeue or an exception
\* from dequeue or from the processing of a job leads back to the loop test;
\* once the signal is set no further job is started, the job in flight runs
\* to completion and the loop terminates.
C16_LoopEndsOnShutdownOnly ==
    /\ [][\A w \in Workers :
            /\ (wpc'[w] = "done" /\ wpc[w] # "done") => (shutdown /\ wpc[w] = "loop")
            /\ (WorkerDequeueEmpty(w) \/ WorkerExcept(w)) => wpc'[w] = "loop"
            /\ shutdown => ~WorkerDequeue(w)]_vars
    /\ shutdown ~> (\A w \in Workers : wpc[w] = "done" \/ ChunkBoundReached(w))

\* The handler _execute_retrieval runs for a level.
HandlerOf(level) ==
    CASE level = TYPE_ONLY -> "retrieve_type_only"
      [] level = MAJOR_TYPE_AND_NAME -> "retrieve_major_type_and_name"
      [] level = SELECTED_ENTITIES -> "retrieve_selected_entities"
      [] level = SELECTED_ENTITIES_AND_MUTUAL_RELATIONS ->
             "retrieve_selected_entities_and_mutual_relations"
      [] level = RELATED_ARTIFACTS_DATA -> "retrieve_related_artifacts_data"
      [] level = RELATED_ARTIFACTS_TEXT -> "retrieve_related_artifacts_text"

\* C20: once a retrieval has dispatched, the handler that ran is the one of the
\* request's explicit resolution when it has one; without one it is the handler
\* of RELATED_ARTIFACTS_DATA when the request has a text, else the one of
\* SELECTED_ENTITIES_AND_MUTUAL_RELATIONS when it has entity ids, else the one
\* of MAJOR_TYPE_AND_NAME (an empty text or id list counts as none).
C20_ResolutionInferred ==
    retpc \in {"sufficiency", "returned"} =>
        /\ request.resolution # NULL => Head(rcalls) = HandlerOf(request.resolution)
        /\ (request.resolution = NULL /\ request.text # "") =>
               Head(rcalls) = HandlerOf(RELATED_ARTIFACTS_DATA)
        /\ (request.resolution = NULL /\ request.text = "" /\ request.entity_ids # <<>>) =>
               Head(rcalls) = HandlerOf(SELECTED_ENTITIES_AND_MUTUAL_RELATIONS)
        /\ (request.resolution = NULL /\ request.text = "" /\ request.entity_ids = <<>>) =>
               Head(rcalls) = HandlerOf(MAJOR_TYPE_AND_NAME)

\* A request with a text, entity ids and no resolution was answered by the
\* level-5 handler.
C20_Witness ==
    /\ retpc = "returned"
    /\ request.resolution = NULL
    /\ request.text # ""
    /\ request.entity_ids # <<>>
    /\ rcalls = <<"retrieve_related_artifacts_data">>

\* The live edges of the tenant with both endpoints among the entity ids.
MutualEdges(tenant_id, entity_ids) ==
    {e \in edges : /\ e.tenant_id = tenant_id
                   /\ ~e.is_deleted
                   /\ e.in \in Range(entity_ids)
                   /\ e.out \in Range(entity_ids)}

\* C18: the relations of a SELECTED_ENTITIES_AND_MUTUAL_RELATIONS response are
\* exactly the non-deleted edges of the tenant with both endpoints in the
\* supplied entity set, whatever the company's relation_types, None included.
C18_MutualRelationsReturned ==
    (retpc = "returned" /\ payload.resolution = SELECTED_ENTITIES_AND_MUTUAL_RELATIONS) =>
        response.relations = {as_relation(e) : e \in MutualEdges(company.id, request.entity_ids)}

\* x and y are the two ends of a live edge of the tenant.
EdgeConnected(tenant_id, x, y) ==
    \E e \in edges : /\ e.tenant_id = tenant_id
                     /\ ~e.is_deleted
                     /\ {e.in, e.out} = {x, y}

\* The live artifacts of the tenant edge-connected to two selected entities.
TwiceConnected(tenant_id, entity_ids) ==
    {a \in RetrieveArtifactIds :
        /\ Stored("artifact", a, tenant_id)
        /\ Cardinality({s \in Range(entity_ids) : /\ Stored("entity", s, NULL)
                                                  /\ EdgeConnected(tenant_id, a, s)}) >= 2}

\* C19: the artifacts of a SELECTED_ENTITIES_AND_MUTUAL_RELATIONS response are
\* exactly the artifacts edge-connected to at least two distinct selected
\* entities and the artifacts edge-connected to one of those, one step away and
\* no further.
C19_ArtifactsOfTwoEntities ==
    (retpc = "returned" /\ payload.resolution = SELECTED_ENTITIES_AND_MUTUAL_RELATIONS) =>
        response.artifacts =
            TwiceConnected(company.id, request.entity_ids)
            \cup {b \in RetrieveArtifactIds :
                     /\ Stored("artifact", b, company.id)
                     /\ \E a \in TwiceConnected(company.id, request.entity_ids) :
                           EdgeConnected(company.id, a, b)}

\* The LLM answered the sufficiency check with a yes.
AnswersYes(answer) == ~answer.raised /\ answer.content \in {"yes", "Yes, it is."}

\* The non-deleted artifacts of the tenant.
LiveArtifacts(tenant_id) ==
    {a \in DOMAIN records : /\ records[a].tb = "artifact"
                            /\ records[a].tenant_id = tenant_id
                            /\ ~records[a].is_deleted}

\* The context holds the text of every artifact of the set that has one, once
\* each, and after them, at its end, the bundle.
TextsThenBundle(context, artifact_ids, bundle) ==
    LET n == Len(context)
        b == Len(bundle)
    IN  /\ b >= 1 /\ n >= b
        /\ SubSeq(context, n - b + 1, n) = bundle
        /\ \A a \in artifact_ids :
              artifact_chunks[a] # <<>> =>
                  Cardinality({i \in 1..(n - b) :
                                  context[i] = PartOf("artifact_text", a, artifact_chunks[a])}) = 1
        /\ \A i \in 1..(n - b) :
              context[i].part = "artifact_text" => context[i].id \in artifact_ids

C21_AbstractTypeOnly ==
    (retpc = "returned" /\ route = Route("company_abstract", 0)) =>
        /\ rcalls = <<"retrieve_type_only">>
        /\ response.entities = <<>>
        /\ response.relations = {}
        /\ response.artifacts = {}
        /\ response.context # <<>>

\* The copies of a chunk the strategies that did not raise returned.
Copies(chunk_id) ==
    {d \in UNION {Range(retrieved[r].docs) : r \in DOMAIN retrieved} : d.chunk_id = chunk_id}

\* C22: when two strategies of the hybrid retriever returned the same chunk
\* with different scores, the hybrid result holds that chunk once and the copy
\* it holds has the highest score of the copies.
C22_HybridKeepsBestCopy ==
    hybrid_pc = "returned" =>
        \A c \in ChunkIds :
            (\E d1, d2 \in Copies(c) : get_score(d1) # get_score(d2)) =>
                /\ Cardinality({i \in DOMAIN hybrid_docs : hybrid_docs[i].chunk_id = c}) = 1
                /\ \A i \in DOMAIN hybrid_docs :
                      hybrid_docs[i].chunk_id = c =>
                          \A d \in Copies(c) : get_score(hybrid_docs[i]) >= get_score(d)

\* C23: a call of extract_entities or extract_relations does not raise, and it
\* gives an empty list when the completion raised or its content was empty,
\* not JSON or not a JSON object.
C23_ExtractNeverRaises ==
    chain_call.name \in {"extract_entities", "extract_relations"} =>
        /\ ~chain_out.raised
        /\ llm.kind \in {"raise", "empty", "malformed", "not_object"} => chain_out.value = <<>>

\* The type is in the list, or the list is None.
Allowed(types, type) == types.is_none \/ type \in Range(types.items)

\* C24: every stored entity has an entity_type and every stored edge a
\* relation_type that the allowed list of its tenant's company holds, when
\* that list is not None.
C24_StoredTypesAllowed ==
    /\ \A id \in DOMAIN records :
          records[id].tb = "entity" =>
              Allowed(Company_find_one(records[id].tenant_id).entity_types,
                      records[id].entity_type)
    /\ \A e \in edges :
          Allowed(Company_find_one(e.tenant_id).relation_types, e.relation_type)

\* C25: when the full-text query raised a driver error, the full-text
\* retriever does not raise: it returns the rows of the LIKE scan, scored 1.0
\* for a case-insensitive substring match and 0.5 otherwise (scores in tenths).
C25_FulltextFallsBackToLike ==
    (fulltext_pc = "returned" /\ fulltext_rows.raised) =>
        /\ ~fulltext_out.raised
        /\ ~like_rows.raised =>
              /\ Len(fulltext_out.value) = Len(like_rows.rows)
              /\ \A i \in DOMAIN like_rows.rows :
                    /\ fulltext_out.value[i].chunk_id = like_rows.rows[i].chunk_id
                    /\ fulltext_out.value[i].relevance_score =
                           (IF like_rows.rows[i].contains THEN 10 ELSE 5)

\* The pairs are the same queries: same sql and same params, pair by pair.
SameQueries(first, second) ==
    /\ Len(first) = Len(second)
    /\ \A i \in DOMAIN first :
          first[i].sql = second[i].sql /\ first[i].params = second[i].params

\* C28: on a vector, full-text, graph or combined builder in any state a
\* client can bring it to, build() called twice in a row returns the same sql
\* and the same params both times, and so does build_all() on a combined
\* builder.
C28_BuildRepeatable ==
    /\ qb.cls \in {"VectorQueryBuilder", "FullTextQueryBuilder", "GraphQueryBuilder",
                   "CombinedQueryBuilder"} =>
          LET first == build(qb)
              second == build(first.b)
          IN  ~first.raised =>
                  /\ ~second.raised
                  /\ SameQueries(<<Pair("query", first)>>, <<Pair("query", second)>>)
    /\ qb.cls = "CombinedQueryBuilder" =>
          LET first == build_all(qb, gqb)
              second == build_all(first.b, first.g)
          IN  ~first.raised => (~second.raised /\ SameQueries(first.queries, second.queries))

\* build() on the two builder states gives the same outcome, sql and params.
BuildsAlike(before, after) ==
    LET first == build(before)
        second == build(after)
    IN  /\ first.raised = second.raised
        /\ first.sql = second.sql
        /\ first.params = second.params

\* C29: a where() call that raises for an unknown operator, or for IN / NOT IN
\* given a value that is not a list, leaves the builder as it was: build()
\* after the failed call returns the sql and the params that build() would
\* have returned before it.
C29_FailedWhereLeavesBuilder ==
    [][\A field \in Fields, value \in WhereValues, operator \in Operators :
           (/\ CallWhere(field, value, operator)
            /\ validate_field_name(field)
            /\ \/ operator \notin allowed_operators
               \/ operator \in {"IN", "NOT IN"} /\ value.t # "list"
            /\ raised')
           => BuildsAlike(qb, qb')]_vars

\* The non-deleted edges of the tenant for the triple of a resolved relation.
LiveEdgesOf(relation, tenant_id) ==
    {e \in edges :
        /\ e.in = relation.from_entity_id
        /\ e.out = relation.to_entity_id
        /\ e.relation_type = relation.relation_type
        /\ e.tenant_id = tenant_id
        /\ ~e.is_deleted}

\* The request holds two relations that resolved to the same triple.
SameTriple(j, k) ==
    /\ j # k
    /\ all_relations[j].from_entity_id = all_relations[k].from_entity_id
    /\ all_relations[j].to_entity_id = all_relations[k].to_entity_id
    /\ all_relations[j].relation_type = all_relations[k].relation_type

\* C27: once the parallel upserts of a request are all done, two of its
\* relations that resolved to the same (source, target, relation_type) have
\* exactly one non-deleted edge of the tenant between them, whatever the order
\* of the upserts' steps.
C27_OneEdgePerTriple ==
    (/\ rpc = "upsert_relations"
     /\ \A k \in 1..Len(upserts) : upserts[k].phase = "done")
    => \A j, k \in 1..Len(upserts) :
           SameTriple(j, k) => Cardinality(LiveEdgesOf(all_relations[j], req.tenant_id)) = 1

\* C30: no relation of a request is dropped silently. Every step of
\* resolve_and_collect_relations, over a relation of payload.relations or over
\* a relation of a content with or without an internal id, either appends the
\* relation to the relations returned for upsert or appends a warning.
C30_NoRelationDroppedSilently ==
    [][(\/ rpc = "relations" /\ req'.relations = req.relations - 1
        \/ rpc = "content_relations" /\ req'.content_relations = Tail(req.content_relations))
       => \/ Len(all_relations') = Len(all_relations) + 1
          \/ Len(warnings') > Len(warnings)]_vars

\* The worker has saved the job as PROCESSING and is chunking its artifact.
Processing(w) == wpc[w] \in {"find_artifact", "embed", "save_chunks"}

\* C26: with two worker processes each handling a queue message for the same
\* job id, at most one of them moves the job to PROCESSING and creates
\* chunks, whatever the order of their steps: never are two workers
\* processing the same job, and no chunk_index of the artifact is written
\* twice.
C26_OneWorkerPerJob ==
    /\ \A w, v \in DOMAIN wpc :
           (w # v /\ Processing(w) /\ Processing(v)) => wjob[w].id # wjob[v].id
    /\ \A a \in DOMAIN chunks : \A i, k \in DOMAIN chunks[a] :
           i # k => chunks[a][i] # chunks[a][k]
====
